---- MODULE Spec2Model ----
(***************************************************************************)
(* A model of the emul8rs CHIP-8 interpreter: the Emulator struct of       *)
(* src/src/emulator.rs (memory, registers, stack, timers, the execute()    *)
(* dispatch, the run loop and the ticker thread) and the Display of        *)
(* src/src/display.rs.                                                     *)
(***************************************************************************)
EXTENDS Integers, Sequences, FiniteSets, TLC

\* ------------------------------------------------------------------------
\* Program constants
\* ------------------------------------------------------------------------
MAX_STACK_SIZE == 128
MEMORY_SIZE == 4096
MICROS_PER_SECOND == 1000000
NUM_REGISTERS == 16
GAME_MEMORY_START == 512
INSTRUCTION_LENGTH == 2
SPRITE_WIDTH == 8
FONT_START_POSITION == 80
FONT_HEIGHT == 5
FONT_CHAR_COUNT == 16
DISPLAY_ROWS == 32
DISPLAY_COLS == 64
COL_STRIDE == 1
ROW_STRIDE == DISPLAY_COLS

FONT ==
  << 240, 144, 144, 144, 240,
      32,  96,  32,  32, 112,
     240,  16, 240, 128, 240,
     240,  16, 240,  16, 240,
     144, 144, 240,  16,  16,
     240, 128, 240,  16, 240,
     240, 128, 240, 144, 240,
     240,  16,  32,  64,  64,
     240, 144, 240, 144, 240,
     240, 144, 240,  16, 240,
     240, 144, 240, 144, 144,
     224, 144, 224, 144, 224,
     240, 128, 128, 128, 240,
     224, 144, 144, 144, 224,
     240, 128, 240, 128, 240,
     240, 128, 240, 128, 128 >>

\* ------------------------------------------------------------------------
\* Bounds of the model
\* ------------------------------------------------------------------------
\* Number of execute() calls explored from an initial state.
MaxSteps == 2
\* Number of values the stack harness pushes.
MaxPush == 3
\* Number of times the ticker fires between two writes of the engine.
MaxFires == 2
\* the number of Display calls a display test makes
MaxCalls == 2
\* the number of files loaded into one emulator
MaxLoads == 2

\* ------------------------------------------------------------------------
\* Machine arithmetic (u8 / u16)
\* ------------------------------------------------------------------------
U8 == 256
U16 == 65536

\* u8::saturating_add, with the carry of overflowing_add
saturating_add(a, b) == <<IF a + b >= 256 THEN 255 ELSE a + b, (a + b) >= 256>>

\* u8::overflowing_add: <<wrapped result, carry>>
overflowing_add(a, b) == <<(a + b) % U8, (a + b) >= U8>>

\* u8::overflowing_sub: <<wrapped result, borrow>>
overflowing_sub(a, b) == <<(a - b + U8) % U8, a < b>>

\* u16::overflowing_add
overflowing_add16(a, b) == <<(a + b) % U16, (a + b) >= U16>>

\* bool.into() as u8
BoolToU8(b) == IF b THEN 1 ELSE 0

\* a subtraction that wraps below zero (u8::wrapping_sub)
wrapping_sub(a, b) == (a - b + U8) % U8

\* u8::saturating_sub and Duration::saturating_sub
saturating_sub(a, b) == IF a >= b THEN a - b ELSE 0

BitOf(kind, p, q) ==
  CASE kind = "or"  -> IF p + q > 0 THEN 1 ELSE 0
    [] kind = "and" -> p * q
    [] kind = "xor" -> (p + q) % 2

RECURSIVE Bitwise(_, _, _, _)
Bitwise(kind, a, b, n) ==
  IF n = 0 THEN 0
  ELSE BitOf(kind, a % 2, b % 2) + 2 * Bitwise(kind, a \div 2, b \div 2, n - 1)

\* u8 "|", "&", "^"
BitOr(a, b) == Bitwise("or", a, b, 8)
BitAnd(a, b) == Bitwise("and", a, b, 8)
BitXor(a, b) == Bitwise("xor", a, b, 8)

\* u8 "<<" and ">>" by one
ShiftLeft(a) == (a * 2) % U8
ShiftRight(a) == a \div 2

\* ------------------------------------------------------------------------
\* Display (src/src/display.rs)
\* ------------------------------------------------------------------------
DisplayCells == 0 .. (DISPLAY_ROWS * DISPLAY_COLS - 1)

\* Display::new: data
DisplayNew == [i \in DisplayCells |-> FALSE]

CellIndex(row, col) == row * ROW_STRIDE + col * COL_STRIDE

\* a bounds check that lets row = DISPLAY_ROWS and col = DISPLAY_COLS through
InBoundsInclusive(row, col) == ~(row > DISPLAY_ROWS \/ col > DISPLAY_COLS)

\* the guard `row >= DISPLAY_ROWS || col >= DISPLAY_COLS` of get / set / xor
InBounds(row, col) == ~(row >= DISPLAY_ROWS \/ col >= DISPLAY_COLS)

\* both checks of an accessor: the guard, and data.get(..) / data.get_mut(..)
\* returning Some
CellOk(data, row, col) == InBounds(row, col) /\ CellIndex(row, col) \in DOMAIN data

\* Display::get
DisplayGet(data, row, col) ==
  IF CellOk(data, row, col)
  THEN [ok |-> TRUE, val |-> data[CellIndex(row, col)]]
  ELSE [ok |-> FALSE, val |-> FALSE]

\* Display::set
DisplaySet(data, row, col, val) ==
  IF CellOk(data, row, col)
  THEN [ok |-> TRUE, data |-> [data EXCEPT ![CellIndex(row, col)] = val]]
  ELSE [ok |-> FALSE, data |-> data]

\* an xor that sets the cell instead (*el |= val)
DisplayXorSets(data, row, col, val) ==
  IF CellOk(data, row, col)
  THEN [ok   |-> TRUE,
        data |-> [data EXCEPT ![CellIndex(row, col)] = (@ \/ val)],
        flip |-> (data[CellIndex(row, col)] /\ val)]
  ELSE [ok |-> FALSE, data |-> data, flip |-> FALSE]

\* an xor that reports a flip whenever it is asked to toggle (flip = val)
DisplayXorReportsToggle(data, row, col, val) ==
  IF CellOk(data, row, col)
  THEN [ok   |-> TRUE,
        data |-> [data EXCEPT ![CellIndex(row, col)] = (@ # val)],
        flip |-> val]
  ELSE [ok |-> FALSE, data |-> data, flip |-> FALSE]

\* Display::xor: flip = *el & val; *el ^= val
DisplayXor(data, row, col, val) ==
  IF CellOk(data, row, col)
  THEN [ok   |-> TRUE,
        data |-> [data EXCEPT ![CellIndex(row, col)] = (@ # val)],
        flip |-> (data[CellIndex(row, col)] /\ val)]
  ELSE [ok |-> FALSE, data |-> data, flip |-> FALSE]

\* a clear that fills only the first row
DisplayClearFirstRow(data) == [i \in DOMAIN data |-> IF i < DISPLAY_COLS THEN FALSE ELSE data[i]]

\* Display::clear
DisplayClear(data) == [i \in DOMAIN data |-> FALSE]

\* ------------------------------------------------------------------------
\* Memory, stack and sprite helpers (src/src/emulator.rs)
\* ------------------------------------------------------------------------
Addresses == 0 .. (MEMORY_SIZE - 1)

\* Emulator::load_bytes: the loop writes bytes[i] at start_position + i and
\* stops with an error at the first address outside memory; the bytes written
\* before the failure stay.
\* a loader that refuses input ending exactly at the last byte of memory
load_bytes_strict(mem, bytes, start_position) ==
  LET room == IF start_position >= MEMORY_SIZE - 1 THEN 0
              ELSE MEMORY_SIZE - 1 - start_position
      written == IF Len(bytes) <= room THEN Len(bytes) ELSE room
  IN  [ok |-> written = Len(bytes),
       memory |-> [a \in Addresses |->
                     IF a >= start_position /\ a < start_position + written
                     THEN bytes[a - start_position + 1]
                     ELSE mem[a]]]

\* Emulator::load_bytes: bytes are stored one by one until one falls outside
\* memory, which is the error; the bytes stored before it stay
load_bytes(mem, bytes, start_position) ==
  LET room == IF start_position >= MEMORY_SIZE THEN 0 ELSE MEMORY_SIZE - start_position
      written == IF Len(bytes) <= room THEN Len(bytes) ELSE room
  IN  [ok |-> written = Len(bytes),
       memory |-> [a \in Addresses |->
                     IF a >= start_position /\ a < start_position + written
                     THEN bytes[a - start_position + 1]
                     ELSE mem[a]]]

\* the zeroed memory with no font loaded
NoFontMemory == [a \in Addresses |-> 0]

\* Emulator::load_font applied to the zeroed memory of Emulator::new
FontMemory == load_bytes([a \in Addresses |-> 0], FONT, FONT_START_POSITION).memory

\* stack_push with the bounds check off by one
stack_push_off_by_one(stk, top, value) ==
  IF top <= MAX_STACK_SIZE
  THEN [ok |-> TRUE, stack |-> [i \in DOMAIN stk |-> IF i = top THEN value ELSE stk[i]],
        stack_top |-> top + 1]
  ELSE [ok |-> FALSE, stack |-> stk, stack_top |-> top]

\* Emulator::stack_push
stack_push(stk, top, value) ==
  IF top < MAX_STACK_SIZE
  THEN [ok |-> TRUE, stack |-> [stk EXCEPT ![top] = value], stack_top |-> top + 1]
  ELSE [ok |-> FALSE, stack |-> stk, stack_top |-> top]

\* stack_pop reading the slot before moving stack_top down
stack_pop_reads_first(stk, top) ==
  IF top = 0
  THEN [ok |-> FALSE, value |-> 0, stack_top |-> top]
  ELSE [ok |-> TRUE, value |-> stk[IF top < MAX_STACK_SIZE THEN top ELSE top - 1],
        stack_top |-> top - 1]

\* Emulator::stack_pop
stack_pop(stk, top) ==
  IF top = 0
  THEN [ok |-> FALSE, value |-> 0, stack_top |-> top]
  ELSE IF top - 1 < MAX_STACK_SIZE
       THEN [ok |-> TRUE, value |-> stk[top - 1], stack_top |-> top - 1]
       ELSE [ok |-> FALSE, value |-> 0, stack_top |-> top - 1]

\* a row whose pixels past the right edge wrap to the left edge
RECURSIVE DrawRowWrapping(_, _, _, _, _, _)
DrawRowWrapping(data, row, x_pos, col_offset, sprite_byte, turned_off) ==
  IF col_offset >= SPRITE_WIDTH
  THEN [ok |-> TRUE, data |-> data, turned_off |-> turned_off]
  ELSE LET r == DisplayXor(data, row, (x_pos + col_offset) % DISPLAY_COLS,
                           sprite_byte >= 128)
       IN  IF ~r.ok THEN [ok |-> FALSE, data |-> data, turned_off |-> turned_off]
           ELSE DrawRowWrapping(r.data, row, x_pos, col_offset + 1,
                                ShiftLeft(sprite_byte), turned_off \/ r.flip)

\* One row of Emulator::draw_sprite: the inner loop over col_offset
RECURSIVE DrawRow(_, _, _, _, _, _)
DrawRow(data, row, x_pos, col_offset, sprite_byte, turned_off) ==
  IF col_offset >= SPRITE_WIDTH \/ x_pos + col_offset >= DISPLAY_COLS
  THEN [ok |-> TRUE, data |-> data, turned_off |-> turned_off]
  ELSE LET r == DisplayXor(data, row, x_pos + col_offset, sprite_byte >= 128)
       IN  IF ~r.ok THEN [ok |-> FALSE, data |-> data, turned_off |-> turned_off]
           ELSE DrawRow(r.data, row, x_pos, col_offset + 1,
                        ShiftLeft(sprite_byte), turned_off \/ r.flip)

\* The outer loop of Emulator::draw_sprite over row_offset
RECURSIVE DrawRows(_, _, _, _, _, _, _, _)
DrawRows(mem, data, cur_index, sprite_length, x_pos, y_pos, row_offset, turned_off) ==
  IF row_offset >= sprite_length \/ y_pos + row_offset >= DISPLAY_ROWS
  THEN [ok |-> TRUE, data |-> data, turned_off |-> turned_off]
  ELSE IF cur_index \notin Addresses
  THEN [ok |-> FALSE, data |-> data, turned_off |-> turned_off]
  ELSE LET r == DrawRow(data, y_pos + row_offset, x_pos, 0, mem[cur_index], turned_off)
       IN  IF ~r.ok THEN r
           ELSE DrawRows(mem, r.data, cur_index + 1, sprite_length, x_pos, y_pos,
                         row_offset + 1, r.turned_off)

\* Emulator::draw_sprite: the framebuffer after the draw and the registers
\* after it (VF is written only when a pixel was turned off)
draw_sprite(mem, data, regs, sprite_index, sprite_length, x_pos, y_pos) ==
  LET r == DrawRows(mem, data, sprite_index, sprite_length,
                    x_pos % DISPLAY_COLS, y_pos % DISPLAY_ROWS, 0, FALSE)
  IN  [ok         |-> r.ok,
       data       |-> r.data,
       turned_off |-> r.turned_off,
       registers  |-> IF r.ok /\ r.turned_off THEN [regs EXCEPT ![15] = 1] ELSE regs]

\* ------------------------------------------------------------------------
\* State
\* ------------------------------------------------------------------------
VARIABLES
  memory,           \* Emulator.memory: [u8; MEMORY_SIZE]
  display,          \* Emulator.display.data: [bool; ROWS * COLS]
  needs_redraw,     \* Emulator.display.needs_redraw
  program_counter,  \* Emulator.program_counter
  index_register,   \* Emulator.index_register: u16
  stack,            \* Emulator.stack: [u16; MAX_STACK_SIZE]
  stack_top,        \* Emulator.stack_top
  registers,        \* Emulator.registers: [u8; NUM_REGISTERS]
  delay_timer,      \* value inside Emulator.delay_timer (Arc<Mutex<u8>>)
  sound_timer,      \* value inside Emulator.sound_timer (Arc<Mutex<u8>>)
  delay_lock,       \* holder of the delay_timer mutex
  sound_lock,       \* holder of the sound_timer mutex
  playing_sound,    \* Emulator.playing_sound
  config,           \* Emulator.config (the rate and the three dialect toggles)
  keys,             \* frontend: the set of keys currently held
  frontend_err,     \* frontend: the call that returns Err ("none" for a sound one)
  channel,          \* number of stop messages queued on the mpsc channel
  ticker_pc,        \* position of the ticker thread
  ticker_tmp,       \* value the ticker read under the lock it holds
  fires,            \* number of completed decrements per timer since the last engine write
  main_pc,          \* position of the main context
  sound_read,       \* the run loop's local sound_timer
  slept,            \* the duration of the run loop's last thread::sleep, in microseconds
  step_duration,    \* Emulator.step_duration, in microseconds
  elapsed,          \* stop_time - start_time of an iteration, in microseconds
  frontend_calls,   \* the run loop's calls into the frontend, in order
  exec_result,      \* result of the last execute(): "none", "Ok" or "Err"
  hist,             \* per execute() call: the state it started from and its result
  pre_memory,       \* memory before the last execute() or load_file()
  pre_stack,        \* stack before the last execute()
  pushed,           \* stack harness: values pushed and not yet popped
  popped,           \* stack harness: values popped, in order
  base_top,         \* stack harness: stack_top before the first push
  call_result,      \* stack harness: result of the last stack_push / stack_pop
  disp_log,         \* display harness: the Display calls made and what they returned
  pre_display,      \* display harness: Display.data before the last call
  load_log          \* the load_file calls made: the file's bytes and the result

emuVars == <<memory, display, needs_redraw, program_counter, index_register,
             stack, stack_top, registers>>
timerVars == <<delay_timer, sound_timer, delay_lock, sound_lock, fires>>
tickerVars == <<ticker_pc, ticker_tmp>>
envVars == <<config, keys, frontend_err, step_duration, elapsed>>
harnessVars == <<pushed, popped, base_top, call_result, disp_log, pre_display,
                 load_log>>
obsVars == <<exec_result, hist, pre_memory, pre_stack>>
vars == <<emuVars, timerVars, tickerVars, envVars, harnessVars, obsVars,
          channel, main_pc, playing_sound, sound_read, slept, frontend_calls>>

Registers == 0 .. (NUM_REGISTERS - 1)
StackSlots == 0 .. (MAX_STACK_SIZE - 1)

\* ------------------------------------------------------------------------
\* fetch and decode (Emulator::fetch, head of Emulator::execute)
\* ------------------------------------------------------------------------
\* Emulator::fetch succeeds iff both bytes are inside memory
FetchOk == program_counter \in Addresses /\ (program_counter + 1) \in Addresses

instruction_byte1 == memory[program_counter]
instruction_byte2 == memory[program_counter + 1]
nib1 == instruction_byte1 \div 16
nib_x == instruction_byte1 % 16
nib_y == instruction_byte2 \div 16
nib_n == instruction_byte2 % 16
nib_nn == instruction_byte2
nib_nnn == nib_x * 256 + nib_y * 16 + nib_n

\* a fetch that advances the program counter by one byte
fetched_one_byte == program_counter + 1

\* the program counter as Emulator::fetch leaves it
fetched_pc == program_counter + INSTRUCTION_LENGTH

\* Emulator::get_reg / Emulator::set_reg (register numbers are nibbles)
get_reg(register) == registers[register]
set_reg(regs, register, value) == [regs EXCEPT ![register] = value]

\* Frontend::check_key
frontend_check_key(key) == key \in keys

\* the frontend's Result for a call of the given kind
FrontendOk(call) == frontend_err # call

\* a timer cell accessed without waiting for its mutex
MutexIgnored(lock) == lock \in {"free", "ticker"}

\* std::sync::Mutex::lock returns once nobody holds the mutex
MutexFree(lock) == lock = "free"

Opcode == instruction_byte1 * 256 + instruction_byte2

\* the key values this execute() passes to Frontend::check_key, in order:
\* VX for EX9E and EXA1, and for FX0A the keys of `for key in 0x0..=0xF` up to
\* the first one held
CheckKeyArgs ==
  IF ~FetchOk THEN << >>
  ELSE IF nib1 = 14 /\ ((nib_y = 9 /\ nib_n = 14) \/ (nib_y = 10 /\ nib_n = 1))
  THEN << get_reg(nib_x) >>
  ELSE IF nib1 = 15 /\ nib_nn = 10
  THEN LET held == {k \in 0 .. 15 : frontend_check_key(k)}
           last == IF ~FrontendOk("check_key") THEN 0
                   ELSE IF held = {} THEN 15
                   ELSE CHOOSE k \in held : \A j \in held : k <= j
       IN  [i \in 1 .. (last + 1) |-> i - 1]
  ELSE << >>

\* What hist records about the state an execute() call starts from
Snapshot(res) ==
  [pc |-> program_counter,
   op |-> IF FetchOk THEN Opcode ELSE -1,
   registers |-> registers,
   index_register |-> index_register,
   stack_top |-> stack_top,
   display |-> display,
   needs_redraw |-> needs_redraw,
   delay_timer |-> delay_timer,
   sound_timer |-> sound_timer,
   keys |-> keys,
   check_key_args |-> CheckKeyArgs,
   res |-> res]

\* execute() may be entered from the run loop ("execute") or, as the unit
\* tests do, called directly ("test"); an Err ends either caller.
ExecEnabled ==
  /\ main_pc \in {"test", "execute"}
  /\ exec_result # "Err"
  /\ Len(hist) < MaxSteps

\* Returning from execute(): `?` in Emulator::run propagates an Err
Finish(res) ==
  /\ exec_result' = res
  /\ hist' = Append(hist, Snapshot(res))
  /\ pre_memory' = memory
  /\ pre_stack' = stack
  /\ main_pc' = IF main_pc = "test" THEN "test"
                ELSE IF res = "Err" THEN "failed" ELSE "read_sound"
  /\ UNCHANGED <<tickerVars, envVars, harnessVars, channel, playing_sound,
                 sound_read, slept, frontend_calls, delay_lock, sound_lock>>

Dispatch == ExecEnabled /\ FetchOk

\* ------------------------------------------------------------------------
\* Emulator::execute, one action per arm of the match, in the match's order
\* ------------------------------------------------------------------------
NoTimerChange == UNCHANGED <<delay_timer, sound_timer, fires>>

\* a failed fetch that has advanced the program counter all the same
ExecFetchErrorAdvances ==
  /\ ExecEnabled
  /\ ~FetchOk
  /\ Finish("Err")
  /\ NoTimerChange
  /\ program_counter' = fetched_pc
  /\ UNCHANGED <<memory, display, needs_redraw, index_register, stack, stack_top,
                 registers>>

\* fetch failed: `self.fetch()?`
ExecFetchError ==
  /\ ExecEnabled
  /\ ~FetchOk
  /\ Finish("Err")
  /\ NoTimerChange
  /\ UNCHANGED emuVars

\* (0x0, 0x0, 0xE, 0x0): CLEAR
IsClear == nib1 = 0 /\ nib_x = 0 /\ nib_y = 14 /\ nib_n = 0
ExecClear ==
  /\ Dispatch
  /\ IsClear
  /\ display' = DisplayClear(display)
  /\ needs_redraw' = TRUE
  /\ program_counter' = fetched_pc
  /\ Finish("Ok")
  /\ NoTimerChange
  /\ UNCHANGED <<memory, index_register, stack, stack_top, registers>>

\* (0x1, ..): JUMP
ExecJump ==
  /\ Dispatch
  /\ nib1 = 1
  /\ program_counter' = nib_nnn
  /\ Finish("Ok")
  /\ NoTimerChange
  /\ UNCHANGED <<memory, display, needs_redraw, index_register, stack, stack_top,
                 registers>>

\* SUBROUTINE pushing the address of the call instruction itself
ExecCallPushesOwnAddress ==
  /\ Dispatch
  /\ nib1 = 2
  /\ LET r == stack_push(stack, stack_top, program_counter % U16)
     IN  /\ stack' = r.stack
         /\ stack_top' = r.stack_top
         /\ program_counter' = IF r.ok THEN nib_nnn ELSE fetched_pc
         /\ Finish(IF r.ok THEN "Ok" ELSE "Err")
  /\ NoTimerChange
  /\ UNCHANGED <<memory, display, needs_redraw, index_register, registers>>

\* (0x2, ..): SUBROUTINE: push the fetched program counter (as u16), jump
ExecCall ==
  /\ Dispatch
  /\ nib1 = 2
  /\ LET r == stack_push(stack, stack_top, fetched_pc % U16)
     IN  /\ stack' = r.stack
         /\ stack_top' = r.stack_top
         /\ program_counter' = IF r.ok THEN nib_nnn ELSE fetched_pc
         /\ Finish(IF r.ok THEN "Ok" ELSE "Err")
  /\ NoTimerChange
  /\ UNCHANGED <<memory, display, needs_redraw, index_register, registers>>

\* (0x0, 0x0, 0xE, 0xE): RETURN
IsReturn == nib1 = 0 /\ nib_x = 0 /\ nib_y = 14 /\ nib_n = 14
ExecReturn ==
  /\ Dispatch
  /\ IsReturn
  /\ LET r == stack_pop(stack, stack_top)
     IN  /\ stack_top' = r.stack_top
         /\ program_counter' = IF r.ok THEN r.value ELSE fetched_pc
         /\ Finish(IF r.ok THEN "Ok" ELSE "Err")
  /\ NoTimerChange
  /\ UNCHANGED <<memory, display, needs_redraw, index_register, stack, registers>>

\* a skip that forgets fetch() has already advanced the program counter
SkipIfFromInstruction(cond) ==
  IF cond THEN program_counter + INSTRUCTION_LENGTH ELSE fetched_pc

\* the program counter after a conditional skip
SkipIf(cond) == IF cond THEN fetched_pc + INSTRUCTION_LENGTH ELSE fetched_pc

\* what the skip arms and the key arms leave alone
SkipFrame ==
  /\ Finish("Ok")
  /\ NoTimerChange
  /\ UNCHANGED <<memory, display, needs_redraw, index_register, stack, stack_top,
                 registers>>

\* (0x3, x, ..): skip if VX == NN
ExecSkipEqImm ==
  /\ Dispatch
  /\ nib1 = 3
  /\ program_counter' = SkipIf(get_reg(nib_x) = nib_nn)
  /\ SkipFrame

\* (0x4, x, ..): skip if VX != NN
ExecSkipNeImm ==
  /\ Dispatch
  /\ nib1 = 4
  /\ program_counter' = SkipIf(get_reg(nib_x) # nib_nn)
  /\ SkipFrame

\* (0x5, x, y, ..): skip if VX == VY (the last nibble is not matched)
ExecSkipEqReg ==
  /\ Dispatch
  /\ nib1 = 5
  /\ program_counter' = SkipIf(get_reg(nib_x) = get_reg(nib_y))
  /\ SkipFrame

\* (0x9, x, y, ..): skip if VX != VY (the last nibble is not matched)
ExecSkipNeReg ==
  /\ Dispatch
  /\ nib1 = 9
  /\ program_counter' = SkipIf(get_reg(nib_x) # get_reg(nib_y))
  /\ SkipFrame

\* what the arms that only write registers leave alone
RegFrame ==
  /\ program_counter' = fetched_pc
  /\ NoTimerChange
  /\ UNCHANGED <<memory, display, needs_redraw, index_register, stack, stack_top>>

\* (0x6, x, ..): VX := NN
ExecSetReg ==
  /\ Dispatch
  /\ nib1 = 6
  /\ registers' = set_reg(registers, nib_x, nib_nn)
  /\ Finish("Ok")
  /\ RegFrame

\* (0x7, x, ..): VX := VX + NN, wrapping, no flag
ExecAddImm ==
  /\ Dispatch
  /\ nib1 = 7
  /\ registers' = set_reg(registers, nib_x, overflowing_add(get_reg(nib_x), nib_nn)[1])
  /\ Finish("Ok")
  /\ RegFrame

\* (0x8, x, y, 0x0): VX := VY
ExecMove ==
  /\ Dispatch
  /\ nib1 = 8 /\ nib_n = 0
  /\ registers' = set_reg(registers, nib_x, get_reg(nib_y))
  /\ Finish("Ok")
  /\ RegFrame

\* 0x4: add with overflow: set_reg(0xF, carry) and then set_reg(x, res)
AddWithOverflow(regs, x, vx, vy) ==
  LET r == overflowing_add(vx, vy)
  IN  set_reg(set_reg(regs, 15, BoolToU8(r[2])), x, r[1])

\* 0x5 / 0x7: minuend - subtrahend: set_reg(0xF, !carry) and then set_reg(x, res)
SubWithOverflow(regs, x, minuend, subtrahend) ==
  LET r == overflowing_sub(minuend, subtrahend)
  IN  set_reg(set_reg(regs, 15, BoolToU8(~r[2])), x, r[1])

\* 0x6 | 0xE: shift: set_reg(x, shifted) and then set_reg(0xF, dropped_bit),
\* dropped_bit being shift_target & 0b00000001 or shift_target & 0b10000000
ShiftOp(regs, n, x, vx, vy, shift_use_vy) ==
  LET shift_right == n = 6
      shift_target == IF shift_use_vy THEN vy ELSE vx
      dropped_bit == BitAnd(shift_target, IF shift_right THEN 1 ELSE 128)
      shifted == IF shift_right THEN ShiftRight(shift_target)
                 ELSE ShiftLeft(shift_target)
  IN  set_reg(set_reg(regs, x, shifted), 15, dropped_bit)

\* the inner `match n` of the (0x8, x, y, n) arm
BinaryOpImplemented(n) == n \in {1, 2, 3, 4, 5, 7, 6, 14}

BinaryOp(regs, n, x, vx, vy, shift_use_vy) ==
  CASE n = 1 -> set_reg(regs, x, BitOr(vx, vy))
    [] n = 2 -> set_reg(regs, x, BitAnd(vx, vy))
    [] n = 3 -> set_reg(regs, x, BitXor(vx, vy))
    [] n = 4 -> AddWithOverflow(regs, x, vx, vy)
    [] n = 5 -> SubWithOverflow(regs, x, vx, vy)
    [] n = 7 -> SubWithOverflow(regs, x, vy, vx)
    [] n \in {6, 14} -> ShiftOp(regs, n, x, vx, vy, shift_use_vy)
    [] OTHER -> regs

\* (0x8, x, y, n): binary register operations; an unmatched n bails
ExecBinaryOp ==
  /\ Dispatch
  /\ nib1 = 8 /\ nib_n # 0
  /\ registers' = BinaryOp(registers, nib_n, nib_x, get_reg(nib_x), get_reg(nib_y),
                           config.shift_use_vy)
  /\ Finish(IF BinaryOpImplemented(nib_n) THEN "Ok" ELSE "Err")
  /\ RegFrame

\* (0xA, ..): index := NNN
ExecSetIndex ==
  /\ Dispatch
  /\ nib1 = 10
  /\ index_register' = nib_nnn
  /\ program_counter' = fetched_pc
  /\ Finish("Ok")
  /\ NoTimerChange
  /\ UNCHANGED <<memory, display, needs_redraw, stack, stack_top, registers>>

\* a jump with offset whose destination is cut to a 12-bit address
ExecJumpOffsetTruncates ==
  /\ Dispatch
  /\ nib1 = 11
  /\ program_counter' = (IF config.jump_offset_use_v0
                         THEN nib_nnn + get_reg(0)
                         ELSE nib_nnn + get_reg(nib_x)) % MEMORY_SIZE
  /\ Finish("Ok")
  /\ NoTimerChange
  /\ UNCHANGED <<memory, display, needs_redraw, index_register, stack, stack_top,
                 registers>>

\* (0xB, x, ..): jump with offset (u16 addition)
ExecJumpOffset ==
  /\ Dispatch
  /\ nib1 = 11
  /\ program_counter' = IF config.jump_offset_use_v0
                        THEN nib_nnn + get_reg(0)
                        ELSE nib_nnn + get_reg(nib_x)
  /\ Finish("Ok")
  /\ NoTimerChange
  /\ UNCHANGED <<memory, display, needs_redraw, index_register, stack, stack_top,
                 registers>>

\* the bytes the random number generator is sampled at
RandBytes == {0, 90, 255}

\* (0xC, x, ..): VX := rand & NN
ExecRand ==
  /\ Dispatch
  /\ nib1 = 12
  /\ \E rand \in RandBytes :
       registers' = set_reg(registers, nib_x, BitAnd(rand, nib_nn))
  /\ Finish("Ok")
  /\ RegFrame

\* (0xD, x, y, n): draw_sprite(index, n, VX, VY)
ExecDraw ==
  /\ Dispatch
  /\ nib1 = 13
  /\ LET r == draw_sprite(memory, display, registers, index_register, nib_n,
                          get_reg(nib_x), get_reg(nib_y))
     IN  /\ display' = r.data
         /\ registers' = r.registers
         /\ Finish(IF r.ok THEN "Ok" ELSE "Err")
  /\ program_counter' = fetched_pc
  /\ NoTimerChange
  /\ UNCHANGED <<memory, needs_redraw, index_register, stack, stack_top>>

\* (0xE, x, 0x9, 0xE): skip if key VX is held
IsSkipKey == nib1 = 14 /\ nib_y = 9 /\ nib_n = 14
ExecSkipKey ==
  /\ Dispatch
  /\ IsSkipKey
  /\ program_counter' = IF FrontendOk("check_key")
                        THEN SkipIf(frontend_check_key(get_reg(nib_x)))
                        ELSE fetched_pc
  /\ Finish(IF FrontendOk("check_key") THEN "Ok" ELSE "Err")
  /\ NoTimerChange
  /\ UNCHANGED <<memory, display, needs_redraw, index_register, stack, stack_top,
                 registers>>

\* (0xE, x, 0xA, 0x1): skip if key VX is not held
IsSkipNotKey == nib1 = 14 /\ nib_y = 10 /\ nib_n = 1
ExecSkipNotKey ==
  /\ Dispatch
  /\ IsSkipNotKey
  /\ program_counter' = IF FrontendOk("check_key")
                        THEN SkipIf(~frontend_check_key(get_reg(nib_x)))
                        ELSE fetched_pc
  /\ Finish(IF FrontendOk("check_key") THEN "Ok" ELSE "Err")
  /\ NoTimerChange
  /\ UNCHANGED <<memory, display, needs_redraw, index_register, stack, stack_top,
                 registers>>

\* the second instruction byte of the implemented (0xF, x, _, _) arms
FOps == {7, 21, 24, 30, 10, 41, 51, 85, 101}

\* (0xF, x, 0x0, 0x7): VX := delay timer, read under the delay mutex
ExecGetDelay ==
  /\ Dispatch
  /\ nib1 = 15 /\ nib_nn = 7
  /\ MutexFree(delay_lock)
  /\ registers' = set_reg(registers, nib_x, delay_timer)
  /\ Finish("Ok")
  /\ RegFrame

\* (0xF, x, 0x1, 0x5): delay timer := VX, written under the delay mutex
ExecSetDelay ==
  /\ Dispatch
  /\ nib1 = 15 /\ nib_nn = 21
  /\ MutexFree(delay_lock)
  /\ delay_timer' = get_reg(nib_x)
  /\ fires' = [fires EXCEPT !.delay_written = get_reg(nib_x), !.delay_fires = 0]
  /\ program_counter' = fetched_pc
  /\ Finish("Ok")
  /\ UNCHANGED <<memory, display, needs_redraw, index_register, stack, stack_top,
                 registers, sound_timer>>

\* (0xF, x, 0x1, 0x8): sound timer := VX, written under the sound mutex
ExecSetSound ==
  /\ Dispatch
  /\ nib1 = 15 /\ nib_nn = 24
  /\ MutexFree(sound_lock)
  /\ sound_timer' = get_reg(nib_x)
  /\ fires' = [fires EXCEPT !.sound_written = get_reg(nib_x), !.sound_fires = 0]
  /\ program_counter' = fetched_pc
  /\ Finish("Ok")
  /\ UNCHANGED <<memory, display, needs_redraw, index_register, stack, stack_top,
                 registers, delay_timer>>

\* (0xF, x, 0x1, 0xE): index += VX; VF := carry || res > 0x0FFF
ExecAddIndex ==
  /\ Dispatch
  /\ nib1 = 15 /\ nib_nn = 30
  /\ LET r == overflowing_add16(index_register, get_reg(nib_x))
     IN  /\ index_register' = r[1]
         /\ registers' = set_reg(registers, 15, BoolToU8(r[2] \/ r[1] > 4095))
  /\ program_counter' = fetched_pc
  /\ Finish("Ok")
  /\ NoTimerChange
  /\ UNCHANGED <<memory, display, needs_redraw, stack, stack_top>>

Keypad == 0 .. 15

\* a scan that keeps the last key the frontend reports held
LastKey == CHOOSE k \in Keypad : frontend_check_key(k) /\
                                 \A j \in Keypad : frontend_check_key(j) => k >= j

\* the `for key in 0x0..=0xF` loop: the first key the frontend reports held
FirstKey == CHOOSE k \in Keypad : frontend_check_key(k) /\
                                  \A j \in Keypad : frontend_check_key(j) => k <= j

\* (0xF, x, 0x0, 0xA): blocking get key
ExecWaitKey ==
  /\ Dispatch
  /\ nib1 = 15 /\ nib_nn = 10
  /\ IF ~FrontendOk("check_key")
     THEN /\ registers' = registers
          /\ program_counter' = fetched_pc
     ELSE IF \E k \in Keypad : frontend_check_key(k)
     THEN /\ registers' = set_reg(registers, nib_x, FirstKey)
          /\ program_counter' = fetched_pc
     ELSE /\ registers' = registers
          /\ program_counter' = fetched_pc - INSTRUCTION_LENGTH
  /\ Finish(IF FrontendOk("check_key") THEN "Ok" ELSE "Err")
  /\ NoTimerChange
  /\ UNCHANGED <<memory, display, needs_redraw, index_register, stack, stack_top>>

\* (0xF, x, 0x2, 0x9): index := FONT_START_POSITION + x * FONT_HEIGHT
ExecFontChar ==
  /\ Dispatch
  /\ nib1 = 15 /\ nib_nn = 41
  /\ index_register' = FONT_START_POSITION + nib_x * FONT_HEIGHT
  /\ program_counter' = fetched_pc
  /\ Finish("Ok")
  /\ NoTimerChange
  /\ UNCHANGED <<memory, display, needs_redraw, stack, stack_top, registers>>

RECURSIVE Pow10(_)
Pow10(i) == IF i = 0 THEN 1 ELSE 10 * Pow10(i - 1)

\* a conversion that stores the ones first: digit i at index + i
RECURSIVE BcdStoreOnesFirst(_, _, _, _)
BcdStoreOnesFirst(mem, idx, vx, i) ==
  IF i >= 3 THEN [ok |-> TRUE, memory |-> mem]
  ELSE IF (idx + i) \notin Addresses THEN [ok |-> FALSE, memory |-> mem]
  ELSE BcdStoreOnesFirst([mem EXCEPT ![idx + i] = (vx % Pow10(i + 1)) \div Pow10(i)],
                         idx, vx, i + 1)

\* the `for i in 0..3` loop of the binary decimal conversion
RECURSIVE BcdStore(_, _, _, _)
BcdStore(mem, idx, vx, i) ==
  IF i >= 3 THEN [ok |-> TRUE, memory |-> mem]
  ELSE IF (idx + 2 - i) \notin Addresses THEN [ok |-> FALSE, memory |-> mem]
  ELSE BcdStore([mem EXCEPT ![idx + 2 - i] = (vx % Pow10(i + 1)) \div Pow10(i)],
                idx, vx, i + 1)

\* (0xF, x, 0x3, 0x3): binary decimal conversion
ExecBcd ==
  /\ Dispatch
  /\ nib1 = 15 /\ nib_nn = 51
  /\ LET r == BcdStore(memory, index_register, get_reg(nib_x), 0)
     IN  /\ memory' = r.memory
         /\ Finish(IF r.ok THEN "Ok" ELSE "Err")
  /\ program_counter' = fetched_pc
  /\ NoTimerChange
  /\ UNCHANGED <<display, needs_redraw, index_register, stack, stack_top, registers>>

\* the `for reg in 0..=x` loop of store registers
RECURSIVE StoreRegs(_, _, _, _, _)
StoreRegs(mem, regs, idx, x, reg) ==
  IF reg > x THEN [ok |-> TRUE, memory |-> mem]
  ELSE IF (idx + reg) \notin Addresses THEN [ok |-> FALSE, memory |-> mem]
  ELSE StoreRegs([mem EXCEPT ![idx + reg] = regs[reg]], regs, idx, x, reg + 1)

\* a load that fills V0..VX from the block read backwards
LoadRegsReversed(mem, regs, idx, x, reg) ==
  IF (idx + x) \notin Addresses THEN [ok |-> FALSE, registers |-> regs]
  ELSE [ok |-> TRUE,
        registers |-> [r \in Registers |->
                         IF r >= reg /\ r <= x THEN mem[idx + x - r] ELSE regs[r]]]

\* the `for reg in 0..=x` loop of load registers
RECURSIVE LoadRegs(_, _, _, _, _)
LoadRegs(mem, regs, idx, x, reg) ==
  IF reg > x THEN [ok |-> TRUE, registers |-> regs]
  ELSE IF (idx + reg) \notin Addresses THEN [ok |-> FALSE, registers |-> regs]
  ELSE LoadRegs(mem, set_reg(regs, reg, mem[idx + reg]), idx, x, reg + 1)

\* an index register that is advanced whatever the toggle says
IndexAfterBlockAlways(idx, x, ok, store_memory_update_index) ==
  IF ok THEN (idx + x + 1) % U16 ELSE idx

\* the index register after a store / load of V0..VX
IndexAfterBlock(idx, x, ok, store_memory_update_index) ==
  IF ok /\ store_memory_update_index THEN (idx + x + 1) % U16 ELSE idx

\* (0xF, x, 0x5, 0x5): store V0..VX at memory[index..]
ExecStoreRegs ==
  /\ Dispatch
  /\ nib1 = 15 /\ nib_nn = 85
  /\ LET r == StoreRegs(memory, registers, index_register, nib_x, 0)
     IN  /\ memory' = r.memory
         /\ index_register' = IndexAfterBlock(index_register, nib_x, r.ok,
                                              config.store_memory_update_index)
         /\ Finish(IF r.ok THEN "Ok" ELSE "Err")
  /\ program_counter' = fetched_pc
  /\ NoTimerChange
  /\ UNCHANGED <<display, needs_redraw, stack, stack_top, registers>>

\* (0xF, x, 0x6, 0x5): load V0..VX from memory[index..]
ExecLoadRegs ==
  /\ Dispatch
  /\ nib1 = 15 /\ nib_nn = 101
  /\ LET r == LoadRegs(memory, registers, index_register, nib_x, 0)
     IN  /\ registers' = r.registers
         /\ index_register' = IndexAfterBlock(index_register, nib_x, r.ok,
                                              config.store_memory_update_index)
         /\ Finish(IF r.ok THEN "Ok" ELSE "Err")
  /\ program_counter' = fetched_pc
  /\ NoTimerChange
  /\ UNCHANGED <<memory, display, needs_redraw, stack, stack_top>>

\* (other, ..): no arm above matched
IsOther ==
  /\ nib1 \in {0, 14, 15}
  /\ ~IsClear
  /\ ~IsReturn
  /\ ~IsSkipKey
  /\ ~IsSkipNotKey
  /\ ~(nib1 = 15 /\ nib_nn \in FOps)

ExecOther ==
  /\ Dispatch
  /\ IsOther
  /\ program_counter' = fetched_pc
  /\ Finish("Ok")
  /\ NoTimerChange
  /\ UNCHANGED <<memory, display, needs_redraw, index_register, stack, stack_top,
                 registers>>

\* Emulator::execute
Execute ==
  \/ ExecFetchError
  \/ ExecClear
  \/ ExecJump
  \/ ExecCall
  \/ ExecReturn
  \/ ExecSkipEqImm
  \/ ExecSkipNeImm
  \/ ExecSkipEqReg
  \/ ExecSkipNeReg
  \/ ExecSetReg
  \/ ExecAddImm
  \/ ExecMove
  \/ ExecBinaryOp
  \/ ExecSetIndex
  \/ ExecJumpOffset
  \/ ExecRand
  \/ ExecDraw
  \/ ExecSkipKey
  \/ ExecSkipNotKey
  \/ ExecGetDelay
  \/ ExecSetDelay
  \/ ExecSetSound
  \/ ExecAddIndex
  \/ ExecWaitKey
  \/ ExecFontChar
  \/ ExecBcd
  \/ ExecStoreRegs
  \/ ExecLoadRegs
  \/ ExecOther

\* ------------------------------------------------------------------------
\* The ticker thread (the closure spawned in Emulator::new)
\* ------------------------------------------------------------------------
TickerFrame ==
  UNCHANGED <<emuVars, envVars, harnessVars, obsVars, main_pc, playing_sound,
              sound_read, slept, frontend_calls>>

\* receiver.try_recv() returned Ok(_), or Err(Disconnected) once the sender is
\* gone: the thread returns
TickerStop ==
  /\ ticker_pc = "recv"
  /\ channel > 0 \/ main_pc = "dropped"
  /\ channel' = IF channel > 0 THEN channel - 1 ELSE channel
  /\ ticker_pc' = "done"
  /\ UNCHANGED <<ticker_tmp, timerVars>>
  /\ TickerFrame

\* try_recv() returned Err(Empty) and ticker.elapsed() >= period
TickerFire ==
  /\ ticker_pc = "recv"
  /\ channel = 0 /\ main_pc # "dropped"
  /\ fires.delay_fires < MaxFires /\ fires.sound_fires < MaxFires
  /\ ticker_pc' = "lock_delay"
  /\ UNCHANGED <<ticker_tmp, timerVars, channel>>
  /\ TickerFrame

\* a thread that returns when it finds no message
TickerIdleReturns ==
  /\ ticker_pc = "recv"
  /\ channel = 0 /\ main_pc # "dropped"
  /\ ticker_pc' = "done"
  /\ UNCHANGED <<ticker_tmp, timerVars, channel>>
  /\ TickerFrame

\* try_recv() returned Err(Empty) and the period has not elapsed
TickerIdle ==
  /\ ticker_pc = "recv"
  /\ channel = 0 /\ main_pc # "dropped"
  /\ ticker_pc' = "sleep"
  /\ UNCHANGED <<ticker_tmp, timerVars, channel>>
  /\ TickerFrame

\* tickers_delay_timer_ref.lock().unwrap(), and the read of *delay_timer
TickerLockDelay ==
  /\ ticker_pc = "lock_delay"
  /\ MutexFree(delay_lock)
  /\ delay_lock' = "ticker"
  /\ ticker_tmp' = delay_timer
  /\ ticker_pc' = "dec_delay"
  /\ UNCHANGED <<delay_timer, sound_timer, sound_lock, fires, channel>>
  /\ TickerFrame

\* a decrement whose guard is kept alive past the block
TickerDecDelayKeepsLock ==
  /\ ticker_pc = "dec_delay"
  /\ delay_timer' = saturating_sub(ticker_tmp, 1)
  /\ delay_lock' = delay_lock
  /\ fires' = [fires EXCEPT !.delay_fires = @ + 1]
  /\ ticker_pc' = "lock_sound"
  /\ UNCHANGED <<ticker_tmp, sound_timer, sound_lock, channel>>
  /\ TickerFrame

\* *delay_timer = (*delay_timer).saturating_sub(1), and the guard's release
TickerDecDelay ==
  /\ ticker_pc = "dec_delay"
  /\ delay_timer' = saturating_sub(ticker_tmp, 1)
  /\ delay_lock' = "free"
  /\ fires' = [fires EXCEPT !.delay_fires = @ + 1]
  /\ ticker_pc' = "lock_sound"
  /\ UNCHANGED <<ticker_tmp, sound_timer, sound_lock, channel>>
  /\ TickerFrame

\* tickers_sound_timer_ref.lock().unwrap(), and the read of *sound_timer
TickerLockSound ==
  /\ ticker_pc = "lock_sound"
  /\ MutexFree(sound_lock)
  /\ sound_lock' = "ticker"
  /\ ticker_tmp' = sound_timer
  /\ ticker_pc' = "dec_sound"
  /\ UNCHANGED <<delay_timer, sound_timer, delay_lock, fires, channel>>
  /\ TickerFrame

\* *sound_timer = (*sound_timer).saturating_sub(1), and the guard's release
TickerDecSound ==
  /\ ticker_pc = "dec_sound"
  /\ sound_timer' = saturating_sub(ticker_tmp, 1)
  /\ sound_lock' = "free"
  /\ fires' = [fires EXCEPT !.sound_fires = @ + 1]
  /\ ticker_pc' = "sleep"
  /\ UNCHANGED <<ticker_tmp, delay_timer, delay_lock, channel>>
  /\ TickerFrame

\* thread::sleep((previous_tick + period) - ticker), then the next iteration
TickerSleep ==
  /\ ticker_pc = "sleep"
  /\ ticker_pc' = "recv"
  /\ UNCHANGED <<ticker_tmp, timerVars, channel>>
  /\ TickerFrame

Ticker ==
  \/ TickerStop
  \/ TickerFire
  \/ TickerIdle
  \/ TickerLockDelay
  \/ TickerDecDelay
  \/ TickerLockSound
  \/ TickerDecSound
  \/ TickerSleep

\* ------------------------------------------------------------------------
\* Emulator::run
\* ------------------------------------------------------------------------
RunFrame ==
  UNCHANGED <<emuVars, timerVars, tickerVars, envVars, harnessVars, obsVars, channel>>

\* `while !self.frontend.should_stop()`: the frontend asks to stop
RunStop ==
  /\ main_pc = "should_stop"
  /\ frontend_calls' = Append(frontend_calls, "should_stop")
  /\ main_pc' = "returned"
  /\ UNCHANGED <<playing_sound, sound_read, slept>>
  /\ RunFrame

\* `while !self.frontend.should_stop()`: the loop body is entered
RunContinue ==
  /\ main_pc = "should_stop"
  /\ Len(hist) < MaxSteps
  /\ frontend_calls' = Append(frontend_calls, "should_stop")
  /\ main_pc' = "draw"
  /\ UNCHANGED <<playing_sound, sound_read, slept>>
  /\ RunFrame

\* a draw whose Err is dropped instead of propagated
RunDrawIgnoresError ==
  /\ main_pc = "draw"
  /\ frontend_calls' = Append(frontend_calls, "draw")
  /\ main_pc' = "execute"
  /\ UNCHANGED <<playing_sound, sound_read, slept>>
  /\ RunFrame

\* self.frontend.draw(&self.display)?
RunDraw ==
  /\ main_pc = "draw"
  /\ frontend_calls' = Append(frontend_calls, "draw")
  /\ main_pc' = IF FrontendOk("draw") THEN "execute" ELSE "failed"
  /\ UNCHANGED <<playing_sound, sound_read, slept>>
  /\ RunFrame

\* sound_timer = *self.sound_timer.lock().unwrap()
RunReadSound ==
  /\ main_pc = "read_sound"
  /\ MutexFree(sound_lock)
  /\ sound_read' = sound_timer
  /\ main_pc' = "toggle"
  /\ UNCHANGED <<playing_sound, frontend_calls, slept>>
  /\ RunFrame

\* `self.frontend.play_sound()?; self.playing_sound = <flag>;`: the flag is
\* assigned only when the call returned Ok
PlaySound(flag) ==
  /\ frontend_calls' = Append(frontend_calls, "play_sound")
  /\ playing_sound' = IF FrontendOk("play_sound") THEN flag ELSE playing_sound
  /\ main_pc' = IF FrontendOk("play_sound") THEN "sleep" ELSE "failed"

\* a level-triggered toggle: the tone is started in every iteration that
\* reads a nonzero sound timer
RunToggleLevel ==
  /\ main_pc = "toggle"
  /\ IF sound_read > 0
     THEN PlaySound(TRUE)
     ELSE IF playing_sound
     THEN PlaySound(FALSE)
     ELSE UNCHANGED <<frontend_calls, playing_sound>> /\ main_pc' = "sleep"
  /\ UNCHANGED <<sound_read, slept>>
  /\ RunFrame

\* the sound toggle: both branches call self.frontend.play_sound()
RunToggle ==
  /\ main_pc = "toggle"
  /\ IF sound_read > 0 /\ ~playing_sound
     THEN PlaySound(TRUE)
     ELSE IF sound_read = 0 /\ playing_sound
     THEN PlaySound(FALSE)
     ELSE UNCHANGED <<frontend_calls, playing_sound>> /\ main_pc' = "sleep"
  /\ UNCHANGED <<sound_read, slept>>
  /\ RunFrame

\* a loop whose next iteration starts without asking should_stop
RunSleepSkipsPoll ==
  /\ main_pc = "sleep"
  /\ slept' = saturating_sub(step_duration, elapsed)
  /\ main_pc' = IF Len(hist) < MaxSteps THEN "draw" ELSE "should_stop"
  /\ UNCHANGED <<playing_sound, sound_read, frontend_calls>>
  /\ RunFrame

\* thread::sleep(self.step_duration.saturating_sub(stop_time - start_time))
RunSleep ==
  /\ main_pc = "sleep"
  /\ slept' = saturating_sub(step_duration, elapsed)
  /\ main_pc' = "should_stop"
  /\ UNCHANGED <<playing_sound, sound_read, frontend_calls>>
  /\ RunFrame

Run ==
  \/ RunStop
  \/ RunContinue
  \/ RunDraw
  \/ RunReadSound
  \/ RunToggle
  \/ RunSleep

\* ------------------------------------------------------------------------
\* impl Drop for Emulator
\* ------------------------------------------------------------------------
\* channel.send(()): the emulator is dropped once run() has returned
DropSend ==
  /\ main_pc \in {"returned", "failed"}
  /\ IF ticker_pc = "done"
     THEN \* the receiver is gone: send returns Err and expect panics
          channel' = channel /\ main_pc' = "panicked"
     ELSE channel' = channel + 1 /\ main_pc' = "drop_join"
  /\ UNCHANGED <<emuVars, timerVars, tickerVars, envVars, harnessVars, obsVars,
                 playing_sound, sound_read, slept, frontend_calls>>

\* a join that returns without waiting for the thread
DropDetach ==
  /\ main_pc = "drop_join"
  /\ main_pc' = "dropped"
  /\ UNCHANGED <<emuVars, timerVars, tickerVars, envVars, harnessVars, obsVars,
                 channel, playing_sound, sound_read, slept, frontend_calls>>

\* handle.join(): returns once the ticker thread has terminated
DropJoin ==
  /\ main_pc = "drop_join"
  /\ ticker_pc = "done"
  /\ main_pc' = "dropped"
  /\ UNCHANGED <<emuVars, timerVars, tickerVars, envVars, harnessVars, obsVars,
                 channel, playing_sound, sound_read, slept, frontend_calls>>

Drop ==
  \/ DropSend
  \/ DropJoin

\* ------------------------------------------------------------------------
\* The stack driven directly, as test_stack drives it
\* ------------------------------------------------------------------------
PushValues == {0, 5, 10, 65535}

HarnessFrame ==
  UNCHANGED <<memory, display, needs_redraw, program_counter, index_register,
              registers, timerVars, tickerVars, envVars, obsVars, channel, main_pc,
              playing_sound, sound_read, slept, frontend_calls, base_top,
              disp_log, pre_display, load_log>>

\* test_emul8r.stack_push(value)
TestPush ==
  /\ main_pc = "test"
  /\ popped = << >>
  /\ Len(pushed) < MaxPush
  /\ call_result # "Err"
  /\ \E value \in PushValues :
       LET r == stack_push(stack, stack_top, value)
       IN  /\ stack' = r.stack
           /\ stack_top' = r.stack_top
           /\ pushed' = IF r.ok THEN Append(pushed, value) ELSE pushed
           /\ call_result' = IF r.ok THEN "Ok" ELSE "Err"
  /\ UNCHANGED popped
  /\ HarnessFrame

\* test_emul8r.stack_pop()
TestPop ==
  /\ main_pc = "test"
  /\ call_result # "Err"
  /\ Len(popped) <= MaxPush
  /\ LET r == stack_pop(stack, stack_top)
     IN  /\ stack_top' = r.stack_top
         /\ popped' = IF r.ok THEN Append(popped, r.value) ELSE popped
         /\ call_result' = IF r.ok THEN "Ok" ELSE "Err"
  /\ UNCHANGED <<stack, pushed>>
  /\ HarnessFrame

\* ------------------------------------------------------------------------
\* The display driven directly, as the tests of display.rs drive it
\* ------------------------------------------------------------------------
\* (row, col) arguments: two corners of the display, row = DISPLAY_ROWS with a
\* valid column, col = DISPLAY_COLS and col = DISPLAY_COLS + 1 with a valid row
DisplayPoints ==
  { <<0, 0>>, <<DISPLAY_ROWS - 1, DISPLAY_COLS - 1>>, <<DISPLAY_ROWS, 0>>,
    <<0, DISPLAY_COLS>>, <<0, DISPLAY_COLS + 1>> }

DisplayCallEnabled ==
  /\ main_pc = "display_test"
  /\ Len(disp_log) < MaxCalls

\* what disp_log records about a call: its arguments, its result, and the
\* cell's value before it (FALSE when there is no such cell)
DisplayCall(op, row, col, val, ok, ret) ==
  [op |-> op, row |-> row, col |-> col, val |-> val, ok |-> ok, ret |-> ret,
   old |-> IF CellOk(display, row, col) THEN display[CellIndex(row, col)] ELSE FALSE]

DisplayFrame ==
  UNCHANGED <<memory, needs_redraw, program_counter, index_register, stack, stack_top,
              registers, timerVars, tickerVars, envVars, obsVars, channel, main_pc,
              playing_sound, sound_read, slept, frontend_calls, pushed, popped, base_top,
              call_result, load_log>>

\* display.set(row, col, val)
TestSet ==
  /\ DisplayCallEnabled
  /\ \E p \in DisplayPoints, val \in BOOLEAN :
       LET r == DisplaySet(display, p[1], p[2], val)
       IN  /\ display' = r.data
           /\ disp_log' = Append(disp_log, DisplayCall("set", p[1], p[2], val, r.ok, FALSE))
  /\ pre_display' = display
  /\ DisplayFrame

\* display.get(row, col)
TestGet ==
  /\ DisplayCallEnabled
  /\ \E p \in DisplayPoints :
       LET r == DisplayGet(display, p[1], p[2])
       IN  disp_log' = Append(disp_log, DisplayCall("get", p[1], p[2], FALSE, r.ok, r.val))
  /\ display' = display
  /\ pre_display' = display
  /\ DisplayFrame

\* display.xor(row, col, val)
TestXor ==
  /\ DisplayCallEnabled
  /\ \E p \in DisplayPoints, val \in BOOLEAN :
       LET r == DisplayXor(display, p[1], p[2], val)
       IN  /\ display' = r.data
           /\ disp_log' = Append(disp_log, DisplayCall("xor", p[1], p[2], val, r.ok, r.flip))
  /\ pre_display' = display
  /\ DisplayFrame

\* display.clear()
TestClear ==
  /\ DisplayCallEnabled
  /\ display' = DisplayClear(display)
  /\ disp_log' = Append(disp_log, DisplayCall("clear", 0, 0, FALSE, TRUE, FALSE))
  /\ pre_display' = display
  /\ DisplayFrame

\* ------------------------------------------------------------------------
\* Emulator::load_file
\* ------------------------------------------------------------------------
\* file sizes: empty, small, one below / at / one above / two above the room
\* between GAME_MEMORY_START and the end of memory, and the size of memory
FileSizes ==
  { 0, 1, 2, 100, MEMORY_SIZE - GAME_MEMORY_START - 1, MEMORY_SIZE - GAME_MEMORY_START,
    MEMORY_SIZE - GAME_MEMORY_START + 1, MEMORY_SIZE - GAME_MEMORY_START + 2,
    MEMORY_SIZE }

\* std::fs::read(path): the file's bytes (never 0 here, two patterns)
FileContents(size, seed) == [i \in 1 .. size |-> 1 + ((seed + 3 * i) % 255)]

\* load_file(path): self.load_bytes(&contents, GAME_MEMORY_START)?
\* main returns when it fails, so no load follows a failed one
load_file ==
  /\ main_pc = "load"
  /\ Len(load_log) < MaxLoads
  /\ IF load_log = << >> THEN TRUE ELSE load_log[Len(load_log)].ok
  /\ \E size \in FileSizes, seed \in {1, 200} :
       LET contents == FileContents(size, seed)
           r == load_bytes(memory, contents, GAME_MEMORY_START)
       IN  /\ memory' = r.memory
           /\ load_log' = Append(load_log, [size |-> size, seed |-> seed, ok |-> r.ok])
  /\ pre_memory' = memory
  /\ UNCHANGED <<display, needs_redraw, program_counter, index_register, stack,
                 stack_top, registers, timerVars, tickerVars, envVars, channel,
                 main_pc, playing_sound, sound_read, slept, frontend_calls, exec_result,
                 hist, pre_stack, pushed, popped, base_top, call_result, disp_log,
                 pre_display>>

\* ------------------------------------------------------------------------
\* Initial states
\* ------------------------------------------------------------------------
\* Emulator::new, with the fields the unit tests then set directly (memory at
\* the program counter, registers, display cells) or that earlier instructions
\* can have produced (stack depth, index register, timers)
InitFields(mem, disp, pc, idx, stk, top, regs, cfg, ks, mode, dt, st) ==
  /\ memory = mem
  /\ display = disp
  /\ needs_redraw = FALSE
  /\ program_counter = pc
  /\ index_register = idx
  /\ stack = stk
  /\ stack_top = top
  /\ registers = regs
  /\ delay_timer = dt
  /\ sound_timer = st
  /\ delay_lock = "free"
  /\ sound_lock = "free"
  /\ playing_sound = FALSE
  /\ config = cfg
  /\ keys = ks
  /\ channel = 0
  /\ ticker_pc = "recv"
  /\ ticker_tmp = 0
  /\ fires = [delay_written |-> dt, delay_fires |-> 0,
              sound_written |-> st, sound_fires |-> 0]
  /\ main_pc = mode
  /\ sound_read = 0
  /\ slept = 0
  /\ step_duration = MICROS_PER_SECOND \div 700
  /\ frontend_calls = << >>
  /\ exec_result = "none"
  /\ hist = << >>
  /\ pre_memory = mem
  /\ pre_stack = stk
  /\ pushed = << >>
  /\ popped = << >>
  /\ base_top = top
  /\ call_result = "none"
  /\ disp_log = << >>
  /\ pre_display = disp
  /\ load_log = << >>

\* the same with a frontend none of whose calls fails
InitState(mem, disp, pc, idx, stk, top, regs, cfg, ks, mode, dt, st) ==
  /\ InitFields(mem, disp, pc, idx, stk, top, regs, cfg, ks, mode, dt, st)
  /\ frontend_err = "none"
  /\ elapsed = 0

\* EmulatorConfig::default
DefaultConfig ==
  [instructions_per_second |-> 700, shift_use_vy |-> TRUE, jump_offset_use_v0 |-> TRUE,
   store_memory_update_index |-> FALSE]

Configs == [instructions_per_second : {700}, shift_use_vy : BOOLEAN, jump_offset_use_v0 : BOOLEAN,
            store_memory_update_index : BOOLEAN]

\* registers: [0u8; NUM_REGISTERS] and stack: [0u16; MAX_STACK_SIZE]
ZeroRegs == [r \in Registers |-> 0]
ZeroStack == [i \in StackSlots |-> 0]

\* a stack holding `top` return addresses, as `top` nested calls leave it
StackOfDepth(top) == [i \in StackSlots |-> IF i < top THEN 514 + 2 * i ELSE 0]

\* registers holding distinct nonzero values
BaseRegs == [r \in Registers |-> 16 * r + 3]

\* the two bytes of a 16-bit instruction
InstrBytes(op) == <<op \div 256, op % 256>>

\* an instruction from its four nibbles
Instr(a, b, c, d) == a * 4096 + b * 256 + c * 16 + d

\* memory with `bytes` written at `at`, as the unit tests write instructions
\* (memory[program_counter] = ..., memory[program_counter + 1] = ...)
RECURSIVE MemoryWith(_, _, _)
MemoryWith(mem, bytes, at) ==
  IF bytes = << >> THEN mem
  ELSE IF at \notin Addresses THEN mem
  ELSE MemoryWith([mem EXCEPT ![at] = Head(bytes)], Tail(bytes), at + 1)

\* sampled inputs
ByteSamples == {0, 1, 127, 128, 255}
RegSamples == {0, 1, 14, 15}
NnnSamples == {0, 2, 512, 514, 1012, 2047, 4094, 4095}
PcSamples == {512, 1024, 4094}
DepthSamples == {0, 1, 127, 128}

\* 1NNN / 2NNN at address A, a 00EE waiting at NNN
InitJumps ==
  \E kind \in {1, 2}, nnn \in NnnSamples, a \in PcSamples, top \in DepthSamples :
    InitState(MemoryWith(MemoryWith(FontMemory, InstrBytes(Instr(0, 0, 14, 14)), nnn),
                         InstrBytes(kind * 4096 + nnn), a),
              DisplayNew, a, 0, StackOfDepth(top), top, BaseRegs,
              DefaultConfig, {}, "test", 0, 0)

\* 00EE at address A
InitReturns ==
  \E a \in PcSamples, top \in DepthSamples :
    InitState(MemoryWith(FontMemory, InstrBytes(Instr(0, 0, 14, 14)), a),
              DisplayNew, a, 0, StackOfDepth(top), top, BaseRegs,
              DefaultConfig, {}, "test", 0, 0)

\* registers with VX = vx and VY = vy (VY written last, as X may equal Y)
RegsWith(x, vx, y, vy) == set_reg(set_reg(BaseRegs, x, vx), y, vy)

\* the instructions that take a register and a byte, at address A:
\* 3XNN / 4XNN / 7XNN
InitSkipImm ==
  \E kind \in {3, 4, 7}, x \in RegSamples, vx \in ByteSamples, nn \in ByteSamples,
     a \in {512, 4092} :
    InitState(MemoryWith(FontMemory, InstrBytes(kind * 4096 + x * 256 + nn), a),
              DisplayNew, a, 0, ZeroStack, 0, set_reg(BaseRegs, x, vx),
              DefaultConfig, {}, "test", 0, 0)

\* 5XY0 / 9XY0 at address A
InitSkipReg ==
  \E kind \in {5, 9}, x \in RegSamples, y \in RegSamples,
     vx \in ByteSamples, vy \in ByteSamples :
    InitState(MemoryWith(FontMemory, InstrBytes(Instr(kind, x, y, 0)), 512),
              DisplayNew, 512, 0, ZeroStack, 0, RegsWith(x, vx, y, vy),
              DefaultConfig, {}, "test", 0, 0)

\* 8XY4 / 8XY5 / 8XY7
InitArith ==
  \E n \in {4, 5, 7}, x \in RegSamples, y \in RegSamples,
     vx \in ByteSamples, vy \in ByteSamples :
    InitState(MemoryWith(FontMemory, InstrBytes(Instr(8, x, y, n)), 512),
              DisplayNew, 512, 0, ZeroStack, 0, RegsWith(x, vx, y, vy),
              DefaultConfig, {}, "test", 0, 0)

\* BNNN under either setting of the jump-offset toggle
InitJumpOffset ==
  \E nnn \in {0, 564, 3840, 4095}, v0 \in {0, 255}, vx \in {1, 128, 255},
     use_v0 \in BOOLEAN :
    InitState(MemoryWith(FontMemory, InstrBytes(11 * 4096 + nnn), 512),
              DisplayNew, 512, 0, StackOfDepth(1), 1,
              RegsWith(0, v0, nnn \div 256, vx),
              [DefaultConfig EXCEPT !.jump_offset_use_v0 = use_v0], {}, "test", 0, 0)

\* 8XY6 / 8XYE, under either setting of the shift toggle
InitShift ==
  \E n \in {6, 14}, x \in {1, 15}, y \in {1, 2, 15},
     vx \in ByteSamples, vy \in ByteSamples, use_vy \in BOOLEAN :
    InitState(MemoryWith(FontMemory, InstrBytes(Instr(8, x, y, n)), 512),
              DisplayNew, 512, 0, ZeroStack, 0, RegsWith(x, vx, y, vy),
              [DefaultConfig EXCEPT !.shift_use_vy = use_vy], {}, "test", 0, 0)

\* framebuffer contents: blank, every cell set, and a striped pattern
DisplayFull == [i \in DisplayCells |-> TRUE]
DisplayStriped == [i \in DisplayCells |-> i % 3 = 0]
DisplaySamples == {DisplayNew, DisplayFull, DisplayStriped}

\* a custom sprite placed in program memory
SpriteBytes == <<255, 129, 0, 24, 255>>
SpriteAt == GAME_MEMORY_START + 256

\* FX33 on the bytes a decimal digit changes at, the three bytes inside
\* memory or ending at its last byte
InitBcd ==
  \E vx \in {0, 9, 10, 99, 100, 128, 199, 200, 255}, idx \in {SpriteAt, 4093} :
    InitState(MemoryWith(MemoryWith(FontMemory, SpriteBytes, SpriteAt),
                         InstrBytes(Instr(15, 14, 3, 3)), 512),
              DisplayNew, 512, idx, ZeroStack, 0, set_reg(BaseRegs, 14, vx),
              DefaultConfig, {}, "test", 0, 0)

\* DXYN twice in a row at 0x200, the sprite read from `idx`
InitDraw ==
  \E x \in {0, 15}, n \in {0, 1, 5, 15}, idx \in {80, 85, SpriteAt, 4093},
     vx \in {0, 60, 70}, vy \in {0, 30, 40}, vf \in {0, 1}, disp \in DisplaySamples :
    InitState(MemoryWith(MemoryWith(FontMemory, SpriteBytes, SpriteAt),
                         InstrBytes(Instr(13, x, 1, n)) \o InstrBytes(Instr(13, x, 1, n)),
                         GAME_MEMORY_START),
              disp, GAME_MEMORY_START, idx, ZeroStack, 0,
              set_reg(RegsWith(x, vx, 1, vy), 15, IF x = 15 THEN vx ELSE vf),
              DefaultConfig, {}, "test", 0, 0)

\* one instruction of every arm of the match
ArmSamples ==
  { Instr(0, 0, 14, 0),
    Instr(6, 10, 2, 11), Instr(7, 10, 15, 15), Instr(8, 1, 2, 0),
    Instr(8, 1, 2, 1), Instr(8, 1, 2, 2), Instr(8, 1, 2, 3),
    Instr(8, 1, 2, 6), Instr(8, 1, 2, 14), Instr(8, 15, 2, 6), Instr(8, 1, 2, 8),
    Instr(10, 1, 2, 3), Instr(11, 2, 3, 4), Instr(12, 1, 15, 0),
    Instr(14, 3, 9, 14), Instr(14, 3, 10, 1), Instr(14, 2, 9, 14), Instr(14, 15, 10, 1),
    Instr(15, 1, 0, 7), Instr(15, 2, 1, 5), Instr(15, 3, 1, 8), Instr(15, 4, 1, 14),
    Instr(15, 5, 0, 10), Instr(15, 6, 2, 9), Instr(15, 1, 2, 9), Instr(15, 7, 3, 3),
    Instr(15, 3, 5, 5), Instr(15, 3, 6, 5),
    Instr(0, 0, 0, 0), Instr(0, 1, 2, 3), Instr(14, 0, 0, 0), Instr(15, 0, 15, 15),
    Instr(5, 1, 2, 1), Instr(9, 1, 2, 1) }

\* registers with Vr = 10 * r + 3 and V3 = 3 (a keypad key)
ArmRegs == [r \in Registers |-> IF r = 3 THEN 3 ELSE 10 * r + 3]

InitArms ==
  \E op \in ArmSamples, cfg \in Configs, ks \in {{}, {3}, {1, 15}},
     idx \in {SpriteAt, 4094, 65535} :
    InitState(MemoryWith(FontMemory, InstrBytes(op) \o InstrBytes(op), GAME_MEMORY_START),
              DisplayStriped, GAME_MEMORY_START, idx, ZeroStack, 0, ArmRegs,
              cfg, ks, "test", 9, 5)

\* a program counter at or past the last byte of memory
InitFetchEdge ==
  \E pc \in {4095, 4096, 4097} :
    InitState(FontMemory, DisplayNew, pc, 0, ZeroStack, 0, ZeroRegs,
              DefaultConfig, {}, "test", 0, 0)

\* FX55 followed by FX65 with the same X, the block inside memory, ending at
\* its last byte, or running past it
InitStoreLoad ==
  \E x \in RegSamples, idx \in {SpriteAt, 4080, 4081, 4094, 4095}, cfg \in Configs :
    InitState(MemoryWith(MemoryWith(FontMemory, SpriteBytes, SpriteAt),
                         InstrBytes(Instr(15, x, 5, 5)) \o InstrBytes(Instr(15, x, 6, 5)),
                         GAME_MEMORY_START),
              DisplayNew, GAME_MEMORY_START, idx, ZeroStack, 0, ArmRegs,
              cfg, {}, "test", 0, 0)

Init ==
  \/ InitStoreLoad
  \/ InitJumps
  \/ InitReturns
  \/ InitSkipImm
  \/ InitSkipReg
  \/ InitArith
  \/ InitShift
  \/ InitJumpOffset
  \/ InitBcd
  \/ InitDraw
  \/ InitArms
  \/ InitFetchEdge

\* the instruction engine driven call by call, as the unit tests drive it
Next == Execute

Spec == Init /\ [][Next]_vars

\* the stack harness, on stacks of several depths
InitStack ==
  \E top \in {0, 5, 126, 128} :
    InitState(FontMemory, DisplayNew, GAME_MEMORY_START, 0, StackOfDepth(top), top,
              ZeroRegs, DefaultConfig, {}, "test", 0, 0)

NextStack == TestPush \/ TestPop

SpecStack == InitStack /\ [][NextStack]_vars

\* a Display on its own in one of the sample states, and an emulator whose
\* display is in one of them and whose program is two 00E0
InitDisplay ==
  \E disp \in DisplaySamples, mode \in {"display_test", "test"} :
    InitState(MemoryWith(FontMemory,
                         InstrBytes(Instr(0, 0, 14, 0)) \o InstrBytes(Instr(0, 0, 14, 0)),
                         GAME_MEMORY_START),
              disp, GAME_MEMORY_START, 0, ZeroStack, 0, ZeroRegs,
              DefaultConfig, {}, mode, 0, 0)

NextDisplay ==
  \/ TestSet
  \/ TestGet
  \/ TestXor
  \/ TestClear
  \/ ExecClear

SpecDisplay == InitDisplay /\ [][NextDisplay]_vars

\* the emulator as Emulator::new returns it, about to load a file
InitLoad ==
  InitState(FontMemory, DisplayNew, GAME_MEMORY_START, 0, ZeroStack, 0, ZeroRegs,
            DefaultConfig, {}, "load", 0, 0)

SpecLoad == InitLoad /\ [][load_file]_vars

\* the run loop on one instruction of every arm, the ticker running
RunSamples ==
  ArmSamples \cup
  { Instr(1, 2, 0, 4), Instr(2, 2, 0, 4), Instr(0, 0, 14, 14),
    Instr(3, 3, 0, 3), Instr(4, 3, 0, 3), Instr(5, 1, 2, 0), Instr(9, 1, 2, 0),
    Instr(13, 1, 2, 5) }

InitRunArms ==
  \E op \in RunSamples :
    InitState(MemoryWith(FontMemory, InstrBytes(op) \o InstrBytes(op), GAME_MEMORY_START),
              DisplayStriped, GAME_MEMORY_START, SpriteAt, StackOfDepth(1), 1,
              ArmRegs, DefaultConfig, {3}, "should_stop", 0, 0)

\* the run loop on a program of two timer instructions (FX15, FX18, FX07)
TimerPrograms ==
  { <<Instr(15, 1, 1, 5), Instr(15, 2, 0, 7)>>,
    <<Instr(15, 1, 1, 5), Instr(15, 1, 1, 5)>>,
    <<Instr(15, 2, 0, 7), Instr(15, 1, 1, 5)>>,
    <<Instr(15, 1, 1, 8), Instr(15, 1, 1, 8)>>,
    <<Instr(15, 1, 1, 8), Instr(15, 2, 0, 7)>> }

InitRunTimers ==
  \E prog \in TimerPrograms, v1 \in {0, 3}, t \in {0, 2} :
    InitState(MemoryWith(FontMemory, InstrBytes(prog[1]) \o InstrBytes(prog[2]),
                         GAME_MEMORY_START),
              DisplayNew, GAME_MEMORY_START, 0, ZeroStack, 0,
              set_reg(ZeroRegs, 1, v1), DefaultConfig, {}, "should_stop", t, t)

\* the run loop with the program counter at the last byte of memory
InitRunFetchEdge ==
  InitState(FontMemory, DisplayNew, 4095, 0, ZeroStack, 0, ZeroRegs,
            DefaultConfig, {}, "should_stop", 1, 0)

\* the run loop with a frontend one of whose calls returns Err, the sound
\* timer running so that the tone is due
FrontendCalls == {"draw", "play_sound", "check_key"}

InitRunFrontendFails ==
  \E op \in {Instr(14, 2, 9, 14), Instr(14, 2, 10, 1), Instr(15, 5, 0, 10),
              Instr(0, 0, 14, 0)},
     err \in FrontendCalls :
    /\ InitFields(MemoryWith(FontMemory, InstrBytes(op) \o InstrBytes(op),
                             GAME_MEMORY_START),
                  DisplayStriped, GAME_MEMORY_START, SpriteAt, StackOfDepth(1), 1,
                  ArmRegs, DefaultConfig, {3}, "should_stop", 0, 2)
    /\ frontend_err = err
    /\ elapsed = 0

\* the run loop of an emulator configured with a rate (main sets
\* instructions_per_second from the command line), its iterations taking
\* less than, exactly, or more than the step budget
InitRunRates ==
  \E ips \in {60, 700, 1000}, spent \in {0, 1000, 1428, 2000, 20000} :
    /\ InitFields(MemoryWith(FontMemory,
                             InstrBytes(Instr(0, 0, 14, 0)) \o InstrBytes(Instr(0, 0, 14, 0)),
                             GAME_MEMORY_START),
                  DisplayNew, GAME_MEMORY_START, 0, ZeroStack, 0, ZeroRegs,
                  [DefaultConfig EXCEPT !.instructions_per_second = ips], {},
                  "should_stop", 0, 0)
    /\ frontend_err = "none"
    /\ elapsed = spent

\* the run loop on an FX0A with no key held
InitRunWaitKey ==
  InitState(MemoryWith(FontMemory,
                       InstrBytes(Instr(15, 5, 0, 10)) \o InstrBytes(Instr(15, 5, 0, 10)),
                       GAME_MEMORY_START),
            DisplayStriped, GAME_MEMORY_START, 0, ZeroStack, 0, ArmRegs,
            DefaultConfig, {}, "should_stop", 0, 3)

InitTimer ==
  \/ InitRunRates
  \/ InitRunWaitKey
  \/ InitRunArms
  \/ InitRunTimers
  \/ InitRunFetchEdge
  \/ InitRunFrontendFails

\* the main context (run loop, execute, drop) and the ticker thread
NextTimer ==
  \/ Execute
  \/ Run
  \/ Drop
  \/ Ticker

SpecTimer == InitTimer /\ [][NextTimer]_vars

\* an emulator that runs and is then dropped, each thread being scheduled as
\* long as it can take a step: the ticker thread never blocks except on a
\* mutex, and drop blocks only in join
InitDrop ==
  \/ InitRunArms
  \/ InitRunFetchEdge

SpecDrop == InitDrop /\ [][NextTimer]_vars /\ WF_vars(Ticker) /\ WF_vars(Drop)

\* the two contexts meeting at the timer mutexes: the run loop on programs of
\* FX07 / FX15 / FX18, every context being scheduled as long as it can take a
\* step
LockPrograms ==
  { <<Instr(15, 1, 1, 5), Instr(15, 2, 0, 7)>>,
    <<Instr(15, 1, 1, 8), Instr(0, 0, 0, 0)>> }

InitLocks ==
  \E prog \in LockPrograms :
    InitState(MemoryWith(FontMemory, InstrBytes(prog[1]) \o InstrBytes(prog[2]),
                         GAME_MEMORY_START),
              DisplayNew, GAME_MEMORY_START, 0, ZeroStack, 0,
              set_reg(ZeroRegs, 1, 3), DefaultConfig, {}, "should_stop", 0, 0)

NextLocks ==
  \/ ExecGetDelay
  \/ ExecSetDelay
  \/ ExecSetSound
  \/ ExecOther
  \/ Run
  \/ Drop
  \/ Ticker

SpecLocks ==
  /\ InitLocks
  /\ [][NextLocks]_vars
  /\ WF_vars(ExecGetDelay \/ ExecSetDelay \/ ExecSetSound \/ ExecOther \/ Run)
  /\ WF_vars(Drop)
  /\ WF_vars(Ticker)

\* ------------------------------------------------------------------------
\* Properties
\* ------------------------------------------------------------------------
Executed == Len(hist) > 0
\* the state the last execute() started from, and the one before it
Last == hist[Len(hist)]
Prev == hist[Len(hist) - 1]

OpNib1(op) == op \div 4096
OpX(op) == (op \div 256) % 16
OpY(op) == (op \div 16) % 16
OpN(op) == op % 16
OpNN(op) == op % 256
OpNNN(op) == op % 4096
OpReturn == Instr(0, 0, 14, 14)

\* C1: 1NNN at address A sets the program counter to NNN and leaves the stack
\* alone; 2NNN at A (the stack not full) pushes A + 2 and sets the program
\* counter to NNN; a 00EE that follows the call pops that entry, sets the
\* program counter to A + 2 and puts stack_top back to its value before the call.
C1_JumpCallReturn ==
  /\ (Executed /\ OpNib1(Last.op) = 1) =>
        /\ Last.res = "Ok"
        /\ program_counter = OpNNN(Last.op)
        /\ stack = pre_stack
        /\ stack_top = Last.stack_top
  /\ (Executed /\ OpNib1(Last.op) = 2 /\ Last.stack_top < MAX_STACK_SIZE) =>
        /\ Last.res = "Ok"
        /\ program_counter = OpNNN(Last.op)
        /\ stack_top = Last.stack_top + 1
        /\ stack[Last.stack_top] = Last.pc + 2
        /\ \A i \in StackSlots : i # Last.stack_top => stack[i] = pre_stack[i]
  /\ (Len(hist) >= 2 /\ OpNib1(Prev.op) = 2 /\ Prev.res = "Ok" /\ Last.op = OpReturn) =>
        /\ Last.res = "Ok"
        /\ program_counter = Prev.pc + 2
        /\ stack_top = Prev.stack_top

\* C1 witness: a call from a non-empty stack followed by the return
C1_Witness ==
  /\ Len(hist) = 2
  /\ OpNib1(hist[1].op) = 2 /\ hist[1].res = "Ok" /\ hist[1].stack_top = 127
  /\ hist[2].op = OpReturn /\ hist[2].res = "Ok"
  /\ program_counter = hist[1].pc + 2
  /\ stack_top = 127

\* the condition a skip instruction tests, on the registers it started from
SkipCondition(h) ==
  CASE OpNib1(h.op) = 3 -> h.registers[OpX(h.op)] = OpNN(h.op)
    [] OpNib1(h.op) = 4 -> h.registers[OpX(h.op)] # OpNN(h.op)
    [] OpNib1(h.op) = 5 -> h.registers[OpX(h.op)] = h.registers[OpY(h.op)]
    [] OpNib1(h.op) = 9 -> h.registers[OpX(h.op)] # h.registers[OpY(h.op)]

IsSkipOp(op) ==
  \/ OpNib1(op) \in {3, 4}
  \/ OpNib1(op) \in {5, 9} /\ OpN(op) = 0

\* C2: 3XNN / 4XNN / 5XY0 / 9XY0 at address A leave the program counter at
\* A + 4 when their condition holds and at A + 2 otherwise, and change no
\* register, memory byte, stack entry or framebuffer cell.
C2_ConditionalSkips ==
  (Executed /\ IsSkipOp(Last.op)) =>
     /\ Last.res = "Ok"
     /\ program_counter = Last.pc + (IF SkipCondition(Last) THEN 4 ELSE 2)
     /\ registers = Last.registers
     /\ memory = pre_memory
     /\ stack = pre_stack
     /\ stack_top = Last.stack_top
     /\ display = Last.display
     /\ index_register = Last.index_register

\* C2 witness: a 9XY0 on VF and another register that skips
C2_Witness ==
  /\ Executed
  /\ OpNib1(Last.op) = 9 /\ OpN(Last.op) = 0 /\ OpX(Last.op) = 15
  /\ Last.registers[15] = 255 /\ Last.registers[OpY(Last.op)] = 0
  /\ program_counter = Last.pc + 4

\* C3: stack_top stays in 0 .. 128; a 2NNN on a full stack and a 00EE on an
\* empty stack return an error and leave the stack and stack_top as they were.
C3_StackBounds ==
  /\ stack_top \in 0 .. MAX_STACK_SIZE
  /\ (Executed /\ OpNib1(Last.op) = 2 /\ Last.stack_top = MAX_STACK_SIZE) =>
        /\ Last.res = "Err"
        /\ stack = pre_stack
        /\ stack_top = MAX_STACK_SIZE
  /\ (Executed /\ Last.op = OpReturn /\ Last.stack_top = 0) =>
        /\ Last.res = "Err"
        /\ stack = pre_stack
        /\ stack_top = 0

\* C3 witness: a call on a full stack has returned its error
C3_Witness ==
  /\ Executed
  /\ OpNib1(Last.op) = 2 /\ Last.stack_top = MAX_STACK_SIZE
  /\ exec_result = "Err"

\* C4: the values pushed by the harness come back in reverse order, and after
\* as many pops as pushes stack_top is back at its value before the first push.
C4_StackLifo ==
  /\ \A i \in 1 .. Len(popped) :
        i <= Len(pushed) => popped[i] = pushed[Len(pushed) - i + 1]
  /\ (Len(popped) = Len(pushed)) => stack_top = base_top

\* C4 witness: MaxPush values, not all equal, pushed and popped again
C4_Witness ==
  /\ Len(pushed) = MaxPush
  /\ Len(popped) = MaxPush
  /\ pushed[1] # pushed[MaxPush]
  /\ base_top = 5

\* C5: after 8XY4, for every X and Y (X = 0xF and Y = 0xF included), VF is 1
\* if the VX + VY of the registers before the instruction exceeded 255 and 0
\* otherwise; when X is not 0xF, VX holds (VX + VY) mod 256.
C5_AddCarryFlag ==
  (Executed /\ OpNib1(Last.op) = 8 /\ OpN(Last.op) = 4) =>
     LET x == OpX(Last.op)
         vx == Last.registers[OpX(Last.op)]
         vy == Last.registers[OpY(Last.op)]
     IN  /\ registers[15] = (IF vx + vy > 255 THEN 1 ELSE 0)
         /\ (x # 15 => registers[x] = (vx + vy) % 256)

\* the minuend and the subtrahend of 8XY5 (VX - VY) and 8XY7 (VY - VX)
Minuend(h) ==
  IF OpN(h.op) = 5 THEN h.registers[OpX(h.op)] ELSE h.registers[OpY(h.op)]
Subtrahend(h) ==
  IF OpN(h.op) = 5 THEN h.registers[OpY(h.op)] ELSE h.registers[OpX(h.op)]

\* C6: after 8XY5 and 8XY7, for every X and Y (X = 0xF and Y = 0xF included),
\* VF is 1 if minuend >= subtrahend (no borrow) and 0 otherwise, on the
\* registers before the instruction; when X is not 0xF, VX holds
\* (minuend - subtrahend) mod 256.
C6_SubBorrowFlag ==
  (Executed /\ OpNib1(Last.op) = 8 /\ OpN(Last.op) \in {5, 7}) =>
     /\ registers[15] = (IF Minuend(Last) >= Subtrahend(Last) THEN 1 ELSE 0)
     /\ (OpX(Last.op) # 15 =>
           registers[OpX(Last.op)] = (Minuend(Last) - Subtrahend(Last) + 256) % 256)

\* some framebuffer cell that was set in `before` is unset in `after`
TurnedOff(before, after) == \E c \in DisplayCells : before[c] /\ ~after[c]
\* some framebuffer cell that was unset in `before` is set in `after`
TurnedOn(before, after) == \E c \in DisplayCells : ~before[c] /\ after[c]

\* C7: after every DXYN, VF is 1 if the draw turned at least one framebuffer
\* pixel from set to unset and 0 otherwise, whatever VF held before.
C7_DrawCollisionFlag ==
  (Executed /\ OpNib1(Last.op) = 13 /\ Last.res = "Ok") =>
     registers[15] = (IF TurnedOff(Last.display, display) THEN 1 ELSE 0)

\* the last two execute() calls are the same DXYN, drawn from the same index
\* register at the same VX and VY, and both succeeded
DrawnTwice ==
  /\ Len(hist) >= 2
  /\ OpNib1(Last.op) = 13
  /\ Prev.op = Last.op
  /\ Prev.res = "Ok" /\ Last.res = "Ok"
  /\ Prev.index_register = Last.index_register
  /\ Prev.registers[OpX(Last.op)] = Last.registers[OpX(Last.op)]
  /\ Prev.registers[OpY(Last.op)] = Last.registers[OpY(Last.op)]

\* C8: drawing the same sprite twice at the same location puts the
\* framebuffer back into the state before the first draw, and when the first
\* draw set at least one pixel the second draw leaves VF = 1.
C8_DrawTwiceRestores ==
  DrawnTwice =>
     /\ display = Prev.display
     /\ TurnedOn(Prev.display, Last.display) => registers[15] = 1

\* C8 witness: a sprite drawn twice over the striped framebuffer, the first
\* draw having set and cleared pixels
C8_Witness ==
  /\ DrawnTwice
  /\ Prev.display = DisplayStriped
  /\ TurnedOn(Prev.display, Last.display)
  /\ TurnedOff(Prev.display, Last.display)
  /\ display = DisplayStriped
  /\ registers[15] = 1

\* C9: a fire of the ticker takes each timer cell from v to v - 1 when v > 0
\* and leaves it at 0 when v = 0; no step of the ticker raises a cell.
C9_TimerSaturates ==
  [][ /\ (ticker_pc = "dec_delay" /\ ticker_pc' = "lock_sound") =>
            /\ delay_timer' = (IF delay_timer > 0 THEN delay_timer - 1 ELSE 0)
            /\ sound_timer' = sound_timer
      /\ (ticker_pc = "dec_sound" /\ ticker_pc' = "sleep") =>
            /\ sound_timer' = (IF sound_timer > 0 THEN sound_timer - 1 ELSE 0)
            /\ delay_timer' = delay_timer
      /\ (ticker_pc' # ticker_pc) =>
            /\ delay_timer' <= delay_timer
            /\ sound_timer' <= sound_timer ]_vars

\* C9 witness: the ticker has fired MaxFires times on a delay timer set to 0
C9_Witness ==
  /\ fires.delay_written = 0
  /\ fires.delay_fires = MaxFires
  /\ delay_timer = 0
  /\ fires.sound_written = 2
  /\ fires.sound_fires = 1
  /\ sound_timer = 1

Max0(n) == IF n > 0 THEN n ELSE 0

\* C10: whatever the interleaving, a timer cell holds max(v - k, 0), v being
\* the last value the engine wrote (or the initial value) and k the number of
\* fires since; a mutex is held only by the ticker between its read and its
\* write, and the register FX07 wrote is the value the cell then held.
C10_TimerAtomic ==
  /\ delay_timer = Max0(fires.delay_written - fires.delay_fires)
  /\ sound_timer = Max0(fires.sound_written - fires.sound_fires)
  /\ (delay_lock = "ticker") <=> (ticker_pc = "dec_delay")
  /\ (sound_lock = "ticker") <=> (ticker_pc = "dec_sound")
  /\ (Executed /\ OpNib1(Last.op) = 15 /\ OpNN(Last.op) = 7) =>
        registers[OpX(Last.op)] = Last.delay_timer

\* C10 witness: the engine wrote 3 into the delay timer with FX15, and the
\* ticker has fired twice since
C10_Witness ==
  /\ Executed
  /\ OpNib1(Last.op) = 15 /\ OpNN(Last.op) = 21
  /\ fires.delay_written = 3
  /\ fires.delay_fires = 2
  /\ delay_timer = 1

\* C11: drop sends the stop message before it joins (while it waits in join
\* the message is queued or the thread has already ended); once the message
\* is sent the ticker thread eventually terminates and drop then completes;
\* drop never completes while the thread is alive; and no timer cell changes
\* once drop has completed.
C11_DropStopsTicker ==
  /\ [](main_pc = "drop_join" => (channel = 1 \/ ticker_pc = "done"))
  /\ [](main_pc = "dropped" => ticker_pc = "done")
  /\ [][main_pc = "dropped" => UNCHANGED <<delay_timer, sound_timer>>]_vars
  /\ (main_pc = "drop_join") ~> (ticker_pc = "done")
  /\ (main_pc = "drop_join") ~> (main_pc = "dropped")

\* C11 witness: drop has completed after a run in which the ticker fired
C11_Witness ==
  /\ main_pc = "dropped"
  /\ ticker_pc = "done"
  /\ channel = 0
  /\ fires.delay_fires > 0

\* the play_sound / stop_sound calls the run loop has made, in order
IsSoundCall(call) == call \in {"play_sound", "stop_sound"}
SoundCalls == SelectSeq(frontend_calls, IsSoundCall)

\* C12: the sound signals sent to the frontend alternate, starting with
\* play_sound: the 1st, 3rd, ... are play_sound and the 2nd, 4th, ... are
\* stop_sound.
C12_SoundAlternates ==
  \A i \in 1 .. Len(SoundCalls) :
    SoundCalls[i] = IF i % 2 = 1 THEN "play_sound" ELSE "stop_sound"

\* C13: a run-loop iteration whose sound-timer read has the zero/nonzero
\* status that playing_sound already records makes no call into the frontend
\* at its toggle and leaves playing_sound as it was.
C13_SoundEdgeTriggered ==
  [][(main_pc = "toggle" /\ main_pc' = "sleep" /\ ((sound_read > 0) <=> playing_sound))
       => (frontend_calls' = frontend_calls /\ playing_sound' = playing_sound)]_vars

\* C13 witness: the second iteration has read a nonzero sound timer while the
\* tone started by the first was playing, and made no further sound call
C13_Witness ==
  /\ main_pc = "sleep"
  /\ Len(hist) = 2
  /\ sound_read > 0
  /\ playing_sound
  /\ Len(SoundCalls) = 1

\* the step() calls the run loop has made
IsStepCall(call) == call = "step"
StepCalls == SelectSeq(frontend_calls, IsStepCall)

\* C14: whenever the run loop is back at its loop condition, it has called
\* the frontend's step() once for each iteration that executed an
\* instruction.
C14_StepOncePerIteration ==
  main_pc = "should_stop" => Len(StepCalls) = Len(hist)

\* the opcodes that match no row of the dispatch table: 0NNN other than 00E0
\* and 00EE, 8XYN with N in {8, 9, A, B, C, D, F}, EXNN other than EX9E and
\* EXA1, FXNN with NN not one of 07, 0A, 15, 18, 1E, 29, 33, 55, 65
NoTableRow(op) ==
  \/ OpNib1(op) = 0 /\ OpNNN(op) \notin {224, 238}
  \/ OpNib1(op) = 8 /\ OpN(op) \in {8, 9, 10, 11, 12, 13, 15}
  \/ OpNib1(op) = 14 /\ OpNN(op) \notin {158, 161}
  \/ OpNib1(op) = 15 /\ OpNN(op) \notin {7, 10, 21, 24, 30, 41, 51, 85, 101}

\* C15: an opcode without a row in the dispatch table makes execute() return
\* Ok with the program counter at its address + 2 and registers, index
\* register, memory, stack, framebuffer and timers as they were.
C15_UnknownOpcodeContinues ==
  (Executed /\ Last.op >= 0 /\ NoTableRow(Last.op)) =>
     /\ Last.res = "Ok"
     /\ program_counter = Last.pc + 2
     /\ registers = Last.registers
     /\ index_register = Last.index_register
     /\ memory = pre_memory
     /\ stack = pre_stack
     /\ stack_top = Last.stack_top
     /\ display = Last.display
     /\ delay_timer = Last.delay_timer
     /\ sound_timer = Last.sound_timer

IsWaitKey(op) == op >= 0 /\ OpNib1(op) = 15 /\ OpNN(op) = 10

\* C16: FX0A at address A always returns; with no key of 0..F held the
\* program counter is A again and no register changed; with a key held VX is
\* the lowest-numbered held key, the other registers are unchanged and the
\* program counter is A + 2.
C16_WaitKeyNeverSuspends ==
  (Executed /\ IsWaitKey(Last.op)) =>
     /\ Last.res = "Ok"
     /\ (Last.keys \cap Keypad = {}) =>
           /\ program_counter = Last.pc
           /\ registers = Last.registers
     /\ (Last.keys \cap Keypad # {}) =>
           /\ program_counter = Last.pc + 2
           /\ registers[OpX(Last.op)] \in Last.keys
           /\ \A k \in Last.keys \cap Keypad : registers[OpX(Last.op)] <= k
           /\ \A r \in Registers \ {OpX(Last.op)} : registers[r] = Last.registers[r]

\* C16 witness: FX0A with keys 1 and F held put 1 into VX and moved on
C16_Witness ==
  /\ Executed
  /\ IsWaitKey(Last.op)
  /\ Last.keys = {1, 15}
  /\ registers[OpX(Last.op)] = 1
  /\ Last.registers[OpX(Last.op)] # 1
  /\ program_counter = Last.pc + 2

IsStoreRegs(op) == op >= 0 /\ OpNib1(op) = 15 /\ OpNN(op) = 85
IsLoadRegs(op) == op >= 0 /\ OpNib1(op) = 15 /\ OpNN(op) = 101
StoredThenLoaded ==
  /\ Len(hist) >= 2
  /\ IsStoreRegs(Prev.op)
  /\ IsLoadRegs(Last.op)
  /\ OpX(Prev.op) = OpX(Last.op)
  /\ Prev.index_register + OpX(Prev.op) <= MEMORY_SIZE - 1
  /\ Last.index_register = Prev.index_register

\* C17: FX55 and then FX65 with the same X, the block I..I+X inside memory
\* and the index register at I again when the load starts: both succeed, the
\* block holds V0..VX, and every register V0..VF has the value it had before
\* the FX55.
C17_StoreLoadRoundTrip ==
  StoredThenLoaded =>
     /\ Prev.res = "Ok" /\ Last.res = "Ok"
     /\ \A r \in 0 .. OpX(Last.op) :
           /\ registers[r] = Prev.registers[r]
           /\ memory[Last.index_register + r] = Prev.registers[r]
     /\ \A r \in (OpX(Last.op) + 1) .. (NUM_REGISTERS - 1) :
           registers[r] = Prev.registers[r]

\* C17 witness: V0..VE went through the last fifteen bytes of memory and back
C17_Witness ==
  /\ StoredThenLoaded
  /\ OpX(Last.op) = 14
  /\ Last.index_register = 4081
  /\ registers = ArmRegs
  /\ memory[4095] = ArmRegs[14]

Called == Len(disp_log) > 0
\* the last Display call, and the one before it
LastCall == disp_log[Len(disp_log)]
PrevCall == disp_log[Len(disp_log) - 1]
ValidCell(row, col) == row < DISPLAY_ROWS /\ col < DISPLAY_COLS
SameCell(c, d) == c.row = d.row /\ c.col = d.col
\* the cell as Display::get reads it
CellOf(data, row, col) == DisplayGet(data, row, col).val
OtherCellsKept(row, col) ==
  \A r \in 0 .. (DISPLAY_ROWS - 1), c \in 0 .. (DISPLAY_COLS - 1) :
    (r # row \/ c # col) => CellOf(display, r, c) = CellOf(pre_display, r, c)

\* C18: xor(row, col, v) on a valid cell leaves it at (old XOR v), returns
\* true iff old and v were both true, and changes no other cell; a second xor
\* with the same v puts the cell back, the two calls returning (false, true)
\* when the first turned the cell on and (true, false) when it turned it off.
C18_XorSelfInverse ==
  /\ (Called /\ LastCall.op = "xor" /\ ValidCell(LastCall.row, LastCall.col)) =>
        /\ LastCall.ok
        /\ CellOf(display, LastCall.row, LastCall.col) = (LastCall.old # LastCall.val)
        /\ LastCall.ret = (LastCall.old /\ LastCall.val)
        /\ OtherCellsKept(LastCall.row, LastCall.col)
  /\ (/\ Len(disp_log) >= 2
      /\ PrevCall.op = "xor" /\ LastCall.op = "xor"
      /\ ValidCell(LastCall.row, LastCall.col)
      /\ SameCell(PrevCall, LastCall) /\ PrevCall.val = LastCall.val) =>
        /\ CellOf(display, LastCall.row, LastCall.col) = PrevCall.old
        /\ (LastCall.val /\ ~PrevCall.old) => (~PrevCall.ret /\ LastCall.ret)
        /\ (LastCall.val /\ PrevCall.old) => (PrevCall.ret /\ ~LastCall.ret)

\* C18 witness: the corner cell was off, xor(.., true) turned it on and a
\* second xor(.., true) turned it off again
C18_Witness ==
  /\ Len(disp_log) = 2
  /\ PrevCall.op = "xor" /\ LastCall.op = "xor"
  /\ PrevCall.row = DISPLAY_ROWS - 1 /\ PrevCall.col = DISPLAY_COLS - 1
  /\ SameCell(PrevCall, LastCall)
  /\ PrevCall.val /\ LastCall.val
  /\ ~PrevCall.old /\ LastCall.old
  /\ ~PrevCall.ret /\ LastCall.ret
  /\ ~CellOf(display, DISPLAY_ROWS - 1, DISPLAY_COLS - 1)

AllCellsFalse ==
  \A r \in 0 .. (DISPLAY_ROWS - 1), c \in 0 .. (DISPLAY_COLS - 1) :
    DisplayGet(display, r, c) = [ok |-> TRUE, val |-> FALSE]

\* C19: after Display::clear(), and after an executed 00E0, every cell of the
\* 64x32 framebuffer reads false, whatever the framebuffer held before.
C19_ClearAllCells ==
  /\ (Called /\ LastCall.op = "clear") => AllCellsFalse
  /\ (Executed /\ Last.op = Instr(0, 0, 14, 0)) => (Last.res = "Ok" /\ AllCellsFalse)

\* C19 witness: the last cell was set and the display then cleared
C19_Witness ==
  /\ Len(disp_log) = 2
  /\ PrevCall.op = "set" /\ PrevCall.val /\ PrevCall.ok
  /\ PrevCall.row = DISPLAY_ROWS - 1 /\ PrevCall.col = DISPLAY_COLS - 1
  /\ LastCall.op = "clear"
  /\ pre_display[0] /\ pre_display[DISPLAY_ROWS * DISPLAY_COLS - 1]
  /\ ~display[DISPLAY_ROWS * DISPLAY_COLS - 1]

\* C20: get, set and xor with row >= 32 or col >= 64 return an error and
\* change no cell; with row < 32 and col < 64 they succeed, and a get that
\* follows a set of the same cell returns the value set.
C20_DisplayBounds ==
  /\ (Called /\ LastCall.op \in {"get", "set", "xor"}) =>
        /\ (LastCall.row >= 32 \/ LastCall.col >= 64) =>
              (~LastCall.ok /\ display = pre_display)
        /\ (LastCall.row < 32 /\ LastCall.col < 64) => LastCall.ok
  /\ (/\ Len(disp_log) >= 2
      /\ PrevCall.op = "set" /\ LastCall.op = "get"
      /\ PrevCall.row < 32 /\ PrevCall.col < 64
      /\ SameCell(PrevCall, LastCall)) =>
        (LastCall.ok /\ LastCall.ret = PrevCall.val)

\* C20 witness: set(32, 0, true) and then set(0, 65, true) both failed
C20_Witness ==
  /\ Len(disp_log) = 2
  /\ PrevCall.op = "set" /\ PrevCall.row = 32 /\ PrevCall.col = 0 /\ ~PrevCall.ok
  /\ LastCall.op = "set" /\ LastCall.row = 0 /\ LastCall.col = 65 /\ ~LastCall.ok
  /\ LastCall.val
  /\ display = DisplayNew

Loaded == Len(load_log) > 0
LastLoad == load_log[Len(load_log)]
LastContents == FileContents(LastLoad.size, LastLoad.seed)
ProgramRoom == MEMORY_SIZE - GAME_MEMORY_START

\* C21: a load of more than 3584 bytes returns an error and every memory
\* byte keeps the value it had before the load.
C21_OversizeLoadLeavesMemory ==
  (Loaded /\ LastLoad.size > ProgramRoom) =>
     /\ ~LastLoad.ok
     /\ memory = pre_memory

\* C22: a load of n <= 3584 bytes succeeds, memory[0x200 + i] is byte i of
\* the file for every i < n, and every other byte (the font region and
\* everything below 0x200 included) keeps its value.
C22_LoadPlacesProgram ==
  (Loaded /\ LastLoad.size <= ProgramRoom) =>
     /\ LastLoad.ok
     /\ \A i \in 0 .. (LastLoad.size - 1) :
           memory[GAME_MEMORY_START + i] = LastContents[i + 1]
     /\ \A a \in Addresses :
           (a < GAME_MEMORY_START \/ a >= GAME_MEMORY_START + LastLoad.size)
              => memory[a] = pre_memory[a]
     /\ \A a \in 0 .. (GAME_MEMORY_START - 1) : memory[a] = FontMemory[a]

\* C22 witness: a file of exactly 3584 bytes was loaded over a 100-byte one
C22_Witness ==
  /\ Len(load_log) = 2
  /\ load_log[1].size = 100 /\ load_log[1].seed = 200
  /\ LastLoad.size = ProgramRoom /\ LastLoad.seed = 1
  /\ LastLoad.ok
  /\ memory[MEMORY_SIZE - 1] = LastContents[ProgramRoom]
  /\ memory[GAME_MEMORY_START] # pre_memory[GAME_MEMORY_START]

\* C26: the emulator as constructed (nothing loaded or executed yet) has the
\* program counter at 0x200, the index register, the sixteen registers, both
\* timers and stack_top at 0, every framebuffer cell false, and memory zero
\* except 0x050..0x09F, where row i of glyph d is at 0x050 + 5 * d + i.
C26_ConstructedState ==
  (load_log = << >> /\ main_pc = "load") =>
     /\ program_counter = 512
     /\ index_register = 0
     /\ \A r \in 0 .. 15 : registers[r] = 0
     /\ delay_timer = 0 /\ sound_timer = 0
     /\ stack_top = 0
     /\ \A r \in 0 .. (DISPLAY_ROWS - 1), c \in 0 .. (DISPLAY_COLS - 1) :
           DisplayGet(display, r, c) = [ok |-> TRUE, val |-> FALSE]
     /\ \A a \in 0 .. 4095 : (a < 80 \/ a > 159) => memory[a] = 0
     /\ \A d \in 0 .. 15, i \in 0 .. 4 : memory[80 + 5 * d + i] = FONT[5 * d + i + 1]
     /\ DOMAIN memory = 0 .. 4095

\* C26 witness: the constructed emulator, glyph 0 at 0x050 and the last row
\* of glyph F at 0x09F
C26_Witness ==
  /\ load_log = << >>
  /\ main_pc = "load"
  /\ memory[80] = 240 /\ memory[81] = 144
  /\ memory[159] = 128
  /\ memory[160] = 0
  /\ program_counter = GAME_MEMORY_START

\* C23: every key value the instruction engine passes to the frontend's
\* check_key is in 0..15.
C23_CheckKeyArgInRange ==
  Executed => \A i \in 1 .. Len(Last.check_key_args) : Last.check_key_args[i] \in 0 .. 15

\* ---- C24 ----
RunEnded == main_pc \in {"failed", "drop_join", "dropped"}
CallCount(call) ==
  Cardinality({i \in 1 .. Len(frontend_calls) : frontend_calls[i] = call})
LastFrontendCall == frontend_calls[Len(frontend_calls)]
ExecuteFailed == main_pc # "test" /\ exec_result = "Err"
FrontendFailed(call) == frontend_err = call /\ CallCount(call) > 0
CheckKeyCalled == Executed /\ Last.check_key_args # << >>

\* C24: an error of execute() or of a frontend call (draw, play_sound,
\* check_key) ends run() in the iteration it happens in. A failed execute() is
\* the last one, and the draw before it is the last frontend call; a failed
\* draw or play_sound is the only such call that failed and the last frontend
\* call, and no execute() follows a failed draw; a failed check_key fails the
\* execute() that made it, after that one call.
C24_ErrorEndsRun ==
  /\ ExecuteFailed =>
       /\ RunEnded
       /\ Last.res = "Err"
       /\ \A i \in 1 .. (Len(hist) - 1) : hist[i].res = "Ok"
       /\ LastFrontendCall = "draw"
       /\ CallCount("draw") = Len(hist)
  /\ FrontendFailed("draw") =>
       /\ RunEnded
       /\ CallCount("draw") = 1
       /\ LastFrontendCall = "draw"
       /\ hist = << >>
  /\ FrontendFailed("play_sound") =>
       /\ RunEnded
       /\ CallCount("play_sound") = 1
       /\ LastFrontendCall = "play_sound"
       /\ CallCount("draw") = Len(hist)
       /\ ~playing_sound
  /\ (frontend_err = "check_key" /\ main_pc # "test" /\ CheckKeyCalled) =>
       /\ ExecuteFailed
       /\ Len(Last.check_key_args) = 1

C24_Witness ==
  /\ main_pc = "dropped"
  /\ \/ FrontendFailed("draw")
     \/ FrontendFailed("play_sound")
     \/ (frontend_err = "check_key" /\ ExecuteFailed /\ CheckKeyCalled)

\* ---- C25 ----
IsAddImm(op) == OpNib1(op) = 7

\* C25: 7XNN returns Ok and leaves VX = (VX + NN) mod 256 and every other
\* register, VF included, as it was, whether or not the addition wraps.
C25_AddImmWrapsNoFlag ==
  (Executed /\ IsAddImm(Last.op)) =>
    /\ Last.res = "Ok"
    /\ registers = [Last.registers EXCEPT
                      ![OpX(Last.op)] = (Last.registers[OpX(Last.op)] + OpNN(Last.op)) % 256]

\* a 7XNN that wrapped, on a register other than VF, VF being nonzero
C25_Witness ==
  /\ Executed /\ IsAddImm(Last.op)
  /\ OpX(Last.op) # 15
  /\ Last.registers[OpX(Last.op)] + OpNN(Last.op) >= 256
  /\ Last.registers[15] # 0
  /\ registers[15] = Last.registers[15]

\* ---- C27 ----
IsShift(op) == OpNib1(op) = 8 /\ OpN(op) \in {6, 14}
ShiftSource(snap) ==
  IF config.shift_use_vy THEN snap.registers[OpY(snap.op)]
  ELSE snap.registers[OpX(snap.op)]

\* C27: 8XY6 and 8XYE shift VY when config.shift_use_vy is set and VX
\* otherwise; VX becomes source >> 1 or (source << 1) mod 256, and then VF
\* becomes the bit shifted out as 0 or 1 (bit 0 for 8XY6, bit 7 for 8XYE), so
\* that with X = 0xF the flag is what VF holds; no other register changes.
C27_ShiftFlagIsZeroOrOne ==
  (Executed /\ IsShift(Last.op)) =>
    LET source == ShiftSource(Last)
        right == OpN(Last.op) = 6
        shifted == IF right THEN source \div 2 ELSE (source * 2) % 256
        flag == IF right THEN source % 2 ELSE source \div 128
    IN  /\ Last.res = "Ok"
        /\ registers = [[Last.registers EXCEPT ![OpX(Last.op)] = shifted]
                          EXCEPT ![15] = flag]

\* ---- C28 ----
IsFontChar(op) == OpNib1(op) = 15 /\ OpNN(op) = 41

\* C28: FX29 with VX in 0..15 leaves the index register at the address of the
\* glyph of the digit VX, 0x050 + 5 * VX, whatever the register number X is.
C28_FontCharOfDigit ==
  (Executed /\ IsFontChar(Last.op) /\ Last.registers[OpX(Last.op)] \in 0 .. 15) =>
    index_register = 80 + 5 * Last.registers[OpX(Last.op)]

\* ---- C29 ----
IsDraw(op) == OpNib1(op) = 13
DrawCol0(snap) == snap.registers[OpX(snap.op)] % 64
DrawRow0(snap) == snap.registers[OpY(snap.op)] % 32
\* the sprite rows that fall on the screen
VisibleRows(snap) ==
  {r \in 0 .. (OpN(snap.op) - 1) : DrawRow0(snap) + r < 32}
\* bit (7 - c) of a byte
SpriteBit(byte, c) ==
  ((byte \div (CASE c = 0 -> 128 [] c = 1 -> 64 [] c = 2 -> 32 [] c = 3 -> 16
                 [] c = 4 -> 8 [] c = 5 -> 4 [] c = 6 -> 2 [] OTHER -> 1)) % 2) = 1
\* the framebuffer cell (row, col) after the sprite of `snap` was XORed in
DrawnCell(snap, mem, row, col) ==
  LET r == row - DrawRow0(snap)
      c == col - DrawCol0(snap)
  IN  IF r \in VisibleRows(snap) /\ c \in 0 .. 7
      THEN snap.display[row * 64 + col] # SpriteBit(mem[snap.index_register + r], c)
      ELSE snap.display[row * 64 + col]

\* C29: a DXYN whose on-screen sprite rows lie in memory returns Ok; cell
\* (r0 + r, c0 + c), with c0 = VX mod 64 and r0 = VY mod 32, is XORed with bit
\* (7 - c) of memory[index + r] for r < N, c < 8, r0 + r < 32, c0 + c < 64, and
\* every other cell keeps its value (nothing wraps); rows past the bottom edge
\* are not read, so they may lie past the end of memory; memory and the index
\* register are unchanged.
C29_DrawClipsAtEdges ==
  (/\ Executed
   /\ IsDraw(Last.op)
   /\ \A r \in VisibleRows(Last) : Last.index_register + r \in 0 .. 4095) =>
    /\ Last.res = "Ok"
    /\ memory = pre_memory
    /\ index_register = Last.index_register
    /\ \A row \in 0 .. 31 : \A col \in 0 .. 63 :
         display[row * 64 + col] = DrawnCell(Last, pre_memory, row, col)

\* a sprite cut at the right edge with set bits in the part cut off, and one
\* cut at the bottom edge whose rows below the edge lie past the end of memory
C29_Witness ==
  /\ Executed /\ IsDraw(Last.op) /\ Last.res = "Ok"
  /\ \/ /\ DrawCol0(Last) > 56
        /\ \E r \in VisibleRows(Last) : pre_memory[Last.index_register + r] % 2 = 1
        /\ display # Last.display
     \/ /\ VisibleRows(Last) # {}
        /\ Last.index_register + OpN(Last.op) - 1 > 4095

\* ---- C30 ----
\* C30: after an instruction that returned Ok and changed a framebuffer cell
\* (00E0 on a non-blank buffer, a DXYN that flipped a pixel) the dirty flag
\* needs_redraw is true, and no instruction changes the flag from true to
\* false.
C30_DirtyAfterDisplayChange ==
  Executed =>
    /\ (Last.res = "Ok" /\ display # Last.display) => needs_redraw
    /\ Last.needs_redraw => needs_redraw

\* ---- C31 ----
\* C31: the step budget is 1,000,000 / instructions_per_second microseconds
\* (1428 for the default 700), and each iteration sleeps the budget less the
\* time the iteration took, or zero when it took longer.
C31_StepBudgetFromConfig ==
  (main_pc = "should_stop" /\ Executed) =>
    LET budget == 1000000 \div config.instructions_per_second
    IN  /\ step_duration = budget
        /\ slept = (IF budget >= elapsed THEN budget - elapsed ELSE 0)

\* ---- C32 ----
\* C32: 5XYN and 9XYN with N # 0 take no skip: after one is executed at
\* address A the program counter is A + 2, whatever VX and VY hold.
C32_RegSkipNeedsZeroNibble ==
  (Executed /\ OpNib1(Last.op) \in {5, 9} /\ OpN(Last.op) # 0) =>
    program_counter = Last.pc + 2

\* ---- C33 ----
IsJumpOffset(op) == OpNib1(op) = 11
JumpOffset(snap) ==
  IF config.jump_offset_use_v0 THEN snap.registers[0]
  ELSE snap.registers[OpX(snap.op)]

\* C33: BNNN returns Ok with the program counter at NNN + V0 when
\* config.jump_offset_use_v0 is set and at NNN + VX otherwise, the sum not cut
\* to 12 bits; the stack, stack_top and every register are unchanged.
C33_JumpOffsetSum ==
  (Executed /\ IsJumpOffset(Last.op)) =>
    /\ Last.res = "Ok"
    /\ program_counter = OpNNN(Last.op) + JumpOffset(Last)
    /\ registers = Last.registers
    /\ stack = pre_stack
    /\ stack_top = Last.stack_top

\* a BNNN by VX, X # 0 and VX # V0, whose destination is past 0xFFF
C33_Witness ==
  /\ Executed /\ IsJumpOffset(Last.op)
  /\ ~config.jump_offset_use_v0
  /\ Last.registers[OpX(Last.op)] # Last.registers[0]
  /\ program_counter > 4095
  /\ stack_top = 1

\* ---- C34 ----
BlockInMemory(snap) == snap.index_register + OpX(snap.op) <= 4095
IndexAfter(snap) ==
  IF config.store_memory_update_index THEN snap.index_register + OpX(snap.op) + 1
  ELSE snap.index_register

\* C34: FX55 and FX65 whose block index..index+X lies in memory return Ok.
\* FX55 leaves memory[index + r] = Vr for r in 0..X, every other memory byte
\* and every register as before; FX65 leaves Vr = memory[index + r] for r in
\* 0..X, the registers above VX and all of memory as before. The index
\* register ends at index + X + 1 when config.store_memory_update_index is
\* set and at index otherwise.
C34_BlockTransfer ==
  /\ (Executed /\ IsStoreRegs(Last.op) /\ BlockInMemory(Last)) =>
       /\ Last.res = "Ok"
       /\ \A a \in 0 .. 4095 :
            memory[a] = IF a - Last.index_register \in 0 .. OpX(Last.op)
                        THEN Last.registers[a - Last.index_register]
                        ELSE pre_memory[a]
       /\ registers = Last.registers
       /\ index_register = IndexAfter(Last)
  /\ (Executed /\ IsLoadRegs(Last.op) /\ BlockInMemory(Last)) =>
       /\ Last.res = "Ok"
       /\ \A r \in 0 .. 15 :
            registers[r] = IF r <= OpX(Last.op)
                           THEN pre_memory[Last.index_register + r]
                           ELSE Last.registers[r]
       /\ memory = pre_memory
       /\ index_register = IndexAfter(Last)

\* an FX55 that advanced the index register, followed by an FX65 of two
\* registers that changed them and advanced it again
C34_Witness ==
  /\ Len(hist) >= 2
  /\ IsStoreRegs(Prev.op) /\ Prev.res = "Ok"
  /\ IsLoadRegs(Last.op) /\ Last.res = "Ok"
  /\ config.store_memory_update_index
  /\ OpX(Last.op) = 1
  /\ Last.index_register = Prev.index_register + 2
  /\ index_register = Last.index_register + 2
  /\ registers # Last.registers

\* ---- C35 ----
IsBcd(op) == OpNib1(op) = 15 /\ OpNN(op) = 51

\* C35: FX33 with index..index+2 inside memory returns Ok and leaves
\* memory[index] = VX div 100, memory[index + 1] = (VX div 10) mod 10 and
\* memory[index + 2] = VX mod 10; every other memory byte, every register and
\* the index register are unchanged.
C35_BcdDigits ==
  (Executed /\ IsBcd(Last.op) /\ Last.index_register + 2 <= 4095) =>
    LET vx == Last.registers[OpX(Last.op)]
        idx == Last.index_register
    IN  /\ Last.res = "Ok"
        /\ memory = [a \in 0 .. 4095 |->
                       IF a = idx THEN vx \div 100
                       ELSE IF a = idx + 1 THEN (vx \div 10) % 10
                       ELSE IF a = idx + 2 THEN vx % 10
                       ELSE pre_memory[a]]
        /\ registers = Last.registers
        /\ index_register = idx

\* 255 written as 2, 5, 5 into the last three bytes of memory
C35_Witness ==
  /\ Executed /\ IsBcd(Last.op)
  /\ Last.registers[OpX(Last.op)] = 255
  /\ Last.index_register = 4093
  /\ memory[4093] = 2 /\ memory[4094] = 5 /\ memory[4095] = 5

\* ---- C36 ----
FetchFailed == Executed /\ Last.pc >= 4095
\* the state is the one the last execute() started from
StateAsBefore ==
  /\ program_counter = Last.pc
  /\ memory = pre_memory
  /\ display = Last.display
  /\ needs_redraw = Last.needs_redraw
  /\ registers = Last.registers
  /\ index_register = Last.index_register
  /\ stack = pre_stack
  /\ stack_top = Last.stack_top
  /\ delay_timer = Last.delay_timer
  /\ sound_timer = Last.sound_timer
\* the last execute() was asked to touch a memory address past 4095
TouchesPastMemory ==
  \/ IsDraw(Last.op) /\ \E r \in VisibleRows(Last) : Last.index_register + r > 4095
  \/ IsBcd(Last.op) /\ Last.index_register + 2 > 4095
  \/ (IsStoreRegs(Last.op) \/ IsLoadRegs(Last.op)) /\ ~BlockInMemory(Last)

\* C36: memory is only accessed at addresses 0..4095. A fetch with the
\* program counter at 4095 or above makes execute() return Err and leaves the
\* program counter and every other field as they were; a DXYN row read, an
\* FX33 write and an FX55 / FX65 transfer that would touch an address past
\* 4095 make execute() return Err.
C36_MemoryAccessChecked ==
  /\ DOMAIN memory = 0 .. 4095
  /\ FetchFailed => (Last.res = "Err" /\ StateAsBefore)
  /\ (Executed /\ ~FetchFailed /\ TouchesPastMemory) => Last.res = "Err"

\* a fetch at 4095, whose first byte is in memory and whose second is not
C36_Witness ==
  /\ Executed /\ Last.pc = 4095 /\ Last.res = "Err"
  /\ program_counter = 4095

\* ---- C37 ----
Even(n) == n % 2 = 0
\* the destination of a jump instruction (1NNN, 2NNN, BNNN) is even
EvenJumpTarget(snap) ==
  IF snap.op < 0 THEN TRUE
  ELSE IF OpNib1(snap.op) \in {1, 2} THEN Even(OpNNN(snap.op))
  ELSE IF IsJumpOffset(snap.op) THEN Even(OpNNN(snap.op) + JumpOffset(snap))
  ELSE TRUE
\* the execute() calls so far started at an even address and jumped to even
\* addresses only
AlignedSoFar ==
  /\ Executed
  /\ Even(hist[1].pc)
  /\ \A i \in 1 .. Len(hist) : EvenJumpTarget(hist[i])

\* C37: after execute() calls that started at an even address and whose jump
\* targets were all even, the program counter is even, and so is every
\* return address on the stack: the advance by 2, the skip by 2, the FX0A
\* rewind by 2 and the address 00EE pops keep it even.
C37_ProgramCounterAligned ==
  AlignedSoFar =>
    /\ Even(program_counter)
    /\ \A i \in 0 .. (stack_top - 1) : i \in StackSlots => Even(stack[i])

\* a call to an even address and the return from it, and an FX0A that
\* rewound the program counter
C37_Witness ==
  /\ AlignedSoFar
  /\ \/ /\ Len(hist) >= 2
        /\ OpNib1(Prev.op) = 2 /\ Prev.res = "Ok"
        /\ Last.op = 238 /\ Last.res = "Ok"
        /\ program_counter = Prev.pc + 2
     \/ /\ IsWaitKey(Last.op)
        /\ program_counter = Last.pc

\* ---- C38 ----
StopSent == main_pc \in {"drop_join", "dropped"}

CallBefore(i) == IF i = 1 THEN "none" ELSE frontend_calls[i - 1]
\* should_stop opens every iteration, the draw follows it at once, and the
\* tone is toggled only after the draw (execute() lies between the two)
CallsInLoopOrder ==
  \A i \in 1 .. Len(frontend_calls) :
    CASE frontend_calls[i] = "should_stop" -> CallBefore(i) \in {"none", "draw", "play_sound"}
      [] frontend_calls[i] = "draw" -> CallBefore(i) = "should_stop"
      [] frontend_calls[i] = "play_sound" -> CallBefore(i) = "draw"
      [] OTHER -> FALSE
\* the number of execute() calls the draws made so far allow
ExecutesDue ==
  IF main_pc = "execute" \/ FrontendFailed("draw")
  THEN CallCount("draw") - 1
  ELSE CallCount("draw")

\* C39: every iteration of the run loop asks should_stop once, first; when
\* it answers true run() returns Ok with nothing drawn or executed after
\* it; otherwise one draw, then one execute(), then the sound check follow in
\* that order, also while an FX0A keeps waiting for a key.
C39_IterationOrder ==
  main_pc \notin {"test", "display_test", "load"} =>
    /\ CallsInLoopOrder
    /\ Len(hist) = ExecutesDue
    /\ CallCount("should_stop") \in {CallCount("draw"), CallCount("draw") + 1}
    /\ main_pc = "draw" => LastFrontendCall = "should_stop"
    /\ main_pc = "execute" => LastFrontendCall = "draw"
    /\ main_pc \in {"read_sound", "toggle"} =>
         (LastFrontendCall = "draw" /\ Last.res = "Ok")
    /\ main_pc = "returned" =>
         /\ LastFrontendCall = "should_stop"
         /\ CallCount("should_stop") = CallCount("draw") + 1
         /\ exec_result # "Err"

\* run() has returned after two iterations that each drew and then executed
\* the same waiting FX0A
C39_Witness ==
  /\ main_pc = "returned"
  /\ Len(hist) = 2
  /\ IsWaitKey(Prev.op) /\ IsWaitKey(Last.op)
  /\ Prev.pc = Last.pc /\ program_counter = Last.pc
  /\ CallCount("draw") = 2

\* ---- C40 ----
\* the main context is about to lock the delay or the sound timer
MainWantsDelay == main_pc = "execute" /\ FetchOk /\ nib1 = 15 /\ nib_nn \in {7, 21}
MainWantsSound ==
  \/ main_pc = "execute" /\ FetchOk /\ nib1 = 15 /\ nib_nn = 24
  \/ main_pc = "read_sound"

====
